---- MODULE Spec2Model ----
(***************************************************************************)
(* A model of the restaurant point-of-sale backend: the order lifecycle,   *)
(* its pricing, vouchers, payments, table occupancy and gift cards.        *)
(*                                                                         *)
(* Every request handler is an async function whose `await prisma...`      *)
(* calls are separate store accesses with no transaction around them.  A   *)
(* request is therefore a process: it occupies a slot of `reqs`, and each  *)
(* store access is one atomic step, so the steps of two requests           *)
(* interleave.  A request ends by putting its HTTP status code in its slot *)
(* (pc = "respond"); Respond then frees the slot.                          *)
(*                                                                         *)
(* Money is a Float in the schema.  Here it is an integer number of        *)
(* hundredths of a cent, which holds every amount the handlers compute     *)
(* exactly as long as prices are whole cents and tax rates whole percents. *)
(***************************************************************************)
EXTENDS Integers, Sequences, FiniteSets, TLC

\* Hundredths of a cent in one cent: Math.round(x * 100) / 100 rounds to cents.
Cent == 100

\* The requests one behaviour may start, and the slots they run in.
MaxRequests == 3
\* The orders one behaviour may create.
MaxOrders == 1
Slots == {1, 2}

VARIABLES
    menu,         \* MenuItem rows: id -> [price, available, restaurantId, modifierIds]
    modifiers,    \* Modifier rows: id -> [price, available]
    tables,       \* Table rows: id -> [status, restaurantId]
    orders,       \* Order rows, in creation order; an order's id is its index
    orderItems,   \* OrderItem rows; an item's id is its index, NoRow once deleted
    itemMods,     \* OrderItemModifier rows: set of [orderItemId, modifierId, price]
    vouchers,     \* Voucher rows: code -> record
    redemptions,  \* VoucherRedemption rows; id is the index, NoRow once deleted
    payments,     \* Payment rows
    giftCards,    \* GiftCard rows; a card's id is its index
    giftTx,       \* GiftCardTransaction rows (append-only)
    reqs,         \* the requests in flight: slot -> request
    clock,        \* the time new Date() gives
    nStarted      \* how many requests were started

vars == <<menu, modifiers, tables, orders, orderItems, itemMods, vouchers,
          redemptions, payments, giftCards, giftTx, clock, reqs, nStarted>>

catalog == <<menu, modifiers>>
orderRows == <<orders, orderItems, itemMods>>
voucherRows == <<vouchers, redemptions>>
giftRows == <<giftCards, giftTx>>

NoRow == [deleted |-> TRUE]

--------------------------------------------------------------------------
\* The enums of the schema.

OrderStatus == {"PENDING", "PREPARING", "READY", "SERVED", "COMPLETED", "CANCELLED"}
OrderItemStatus == {"PENDING", "PREPARING", "READY", "SERVED", "CANCELLED"}
ActiveStatus == {"PENDING", "PREPARING", "READY", "SERVED"}
TerminalStatus == {"COMPLETED", "CANCELLED"}
TableStatus == {"AVAILABLE", "OCCUPIED", "RESERVED", "MAINTENANCE"}

--------------------------------------------------------------------------
\* The seeded store: one restaurant with a tax rate of 8 percent, its
\* catalog, one table, one customer.

TaxRateOf(restaurantId) == IF restaurantId = "r1" THEN 8 ELSE 0

Manager == [id |-> "u1", role |-> "MANAGER", restaurantId |-> "r1"]

InitMenu ==
    [m1 |-> [price |-> 1000 * Cent, available |-> TRUE, restaurantId |-> "r1",
             modifierIds |-> {"x1", "x2"}],
     m2 |-> [price |-> 500 * Cent, available |-> TRUE, restaurantId |-> "r1",
             modifierIds |-> {}],
     m3 |-> [price |-> 700 * Cent, available |-> FALSE, restaurantId |-> "r1",
             modifierIds |-> {}]]

InitModifiers ==
    [x1 |-> [price |-> 150 * Cent, available |-> TRUE],
     x2 |-> [price |-> 50 * Cent, available |-> FALSE]]

Customers == {"c1"}

\* A requested order item: {menuItemId, quantity, modifierIds}.
Item(m, q, mods) == [menuItemId |-> m, quantity |-> q, modifierIds |-> mods]

\* The vouchers a behaviour may be seeded with: 20 percent off, 40.00 off
\* (more than a small order's subtotal), a free item worth 5.00.
NoLimit == -1
VoucherChoices ==
    { [type |-> "PERCENTAGE", value |-> 20, minPurchase |-> 0, isActive |-> TRUE,
       startDate |-> 0, expiryDate |-> 2, usageLimit |-> NoLimit, usageCount |-> 0,
       restaurantId |-> "r1"],
      [type |-> "FIXED_AMOUNT", value |-> 4000 * Cent, minPurchase |-> 0,
       isActive |-> TRUE, startDate |-> 0, expiryDate |-> 2, usageLimit |-> NoLimit,
       usageCount |-> 0, restaurantId |-> "r1"],
      [type |-> "FREE_ITEM", value |-> 500 * Cent, minPurchase |-> 0,
       isActive |-> TRUE, startDate |-> 0, expiryDate |-> 2, usageLimit |-> NoLimit,
       usageCount |-> 0, restaurantId |-> "r1"] }

\* applyVoucher's clock is the literal 2025-05-09T05:49:52Z; dates are
\* 0 (before it), 1 (that instant), 2 (after it).
Now == 1

Idle == [op |-> "none", pc |-> "idle", user |-> Manager,
         p |-> <<>>, o |-> <<>>, loc |-> <<>>, code |-> 0]

Init ==
    /\ menu = InitMenu
    /\ modifiers = InitModifiers
    /\ tables = [t1 |-> [status |-> "AVAILABLE", restaurantId |-> "r1"]]
    /\ orders = <<>>
    /\ orderItems = <<>>
    /\ itemMods = {}
    /\ \E v \in VoucherChoices : vouchers = [SAVE |-> v]
    /\ redemptions = <<>>
    /\ payments = <<>>
    /\ giftCards = <<>>
    /\ giftTx = <<>>
    /\ clock = 1
    /\ reqs = [s \in Slots |-> Idle]
    /\ nStarted = 0

--------------------------------------------------------------------------
\* Requests.

\* A request takes the lowest free slot (which slot it runs in means nothing).
Free(s) ==
    /\ nStarted < MaxRequests
    /\ reqs[s].pc = "idle"
    /\ \A t \in Slots : t < s => reqs[t].pc # "idle"

\* Slot s starts request `op` of `user` with parameters p at step pc.
Begin(s, op, user, p, pc) ==
    /\ Free(s)
    /\ nStarted' = nStarted + 1
    /\ reqs' = [reqs EXCEPT ![s] = [op |-> op, pc |-> pc, user |-> user,
                                    p |-> p, o |-> <<>>, loc |-> <<>>,
                                    code |-> 0]]

At(s, op, pc) == reqs[s].op = op /\ reqs[s].pc = pc

\* The request moves on to step pc, keeping the order it read and locals loc.
Goto(s, pc, loc) ==
    reqs' = [reqs EXCEPT ![s].pc = pc, ![s].loc = loc]

\* The request read order row o and moves on.
GotoWith(s, pc, o, loc) ==
    reqs' = [reqs EXCEPT ![s].pc = pc, ![s].o = o, ![s].loc = loc]

\* res.status(code).json(...), or next(error) for a thrown store error: the
\* error handler answers 400 to a unique-constraint violation (P2002) and 500
\* to a missing row of an update or a delete.
Reply(s, code) ==
    reqs' = [reqs EXCEPT ![s].pc = "respond", ![s].code = code]

\* The response leaves; the slot is free again.
Respond(s) ==
    /\ reqs[s].pc = "respond"
    /\ reqs' = [reqs EXCEPT ![s] = Idle]
    /\ UNCHANGED <<catalog, tables, orderRows, voucherRows, payments, giftRows, clock,
                   nStarted>>

\* The tenant check every order handler repeats.
NotAuthorized(user, restaurantId) ==
    user.role # "ADMIN" /\ restaurantId # user.restaurantId

Live(rows) == {i \in DOMAIN rows : rows[i] # NoRow}

ItemsOf(orderId) ==
    {i \in Live(orderItems) : orderItems[i].orderId = orderId}

ModsOf(itemId) == {m \in itemMods : m.orderItemId = itemId}

--------------------------------------------------------------------------
\* Pricing.

\* The tax taken as a tenth, not a hundredth, of subtotal times the rate.
TaxOnTenth(subtotal, taxRate) == (subtotal * taxRate) \div 10

\* subtotal * (taxRate / 100)
TaxOn(subtotal, taxRate) == (subtotal * taxRate) \div 100

\* total = subtotal + tax, as createOrder and the item handlers compute it.
TotalOf(subtotal, tax) == subtotal + tax

\* Math.round(x * 100) / 100 of the amount num / den (den > 0): to whole
\* cents, halves upwards.
RoundCents(num, den) == ((2 * num + den * Cent) \div (2 * den * Cent)) * Cent

Min(a, b) == IF a < b THEN a ELSE b
Max(a, b) == IF a > b THEN a ELSE b

RECURSIVE ValidateModifiers(_, _)
\* The loop over modifierIds: the first modifier that is not in one of the
\* menu item's groups, or is unavailable, ends the request with 400;
\* otherwise the modifiers' prices are summed and snapshotted.
ValidateModifiers(menuItem, modifierIds) ==
    IF modifierIds = <<>> THEN [code |-> 0, price |-> 0, mods |-> <<>>]
    ELSE LET id == Head(modifierIds) IN
         IF id \notin menuItem.modifierIds \/ ~modifiers[id].available
         THEN [code |-> 400, price |-> 0, mods |-> <<>>]
         ELSE LET rest == ValidateModifiers(menuItem, Tail(modifierIds)) IN
              IF rest.code # 0 THEN rest
              ELSE [code |-> 0, price |-> modifiers[id].price + rest.price,
                    mods |-> <<[modifierId |-> id, price |-> modifiers[id].price]>>
                             \o rest.mods]

RECURSIVE ValidateItems(_, _)
\* The loop over orderItems of createOrder and addOrderItems: code is 0 when
\* every item is valid, and then subtotal is the sum of
\* (menuItem.price + modifiersPrice) * quantity and items holds the rows to
\* create, each with the catalog prices of this instant.
ValidateItems(items, restaurantId) ==
    IF items = <<>> THEN [code |-> 0, subtotal |-> 0, items |-> <<>>]
    ELSE LET item == Head(items) IN
         IF item.menuItemId \notin DOMAIN menu
         THEN [code |-> 404, subtotal |-> 0, items |-> <<>>]
         ELSE LET menuItem == menu[item.menuItemId]
                  mods == ValidateModifiers(menuItem, item.modifierIds)
              IN
              IF menuItem.restaurantId # restaurantId \/ ~menuItem.available
              THEN [code |-> 400, subtotal |-> 0, items |-> <<>>]
              ELSE IF mods.code # 0 THEN [code |-> mods.code, subtotal |-> 0, items |-> <<>>]
              ELSE LET rest == ValidateItems(Tail(items), restaurantId) IN
                   IF rest.code # 0 THEN rest
                   ELSE [code |-> 0,
                         subtotal |-> (menuItem.price + mods.price) * item.quantity
                                      + rest.subtotal,
                         items |-> <<[menuItemId |-> item.menuItemId,
                                      quantity |-> item.quantity,
                                      price |-> menuItem.price,
                                      modifiers |-> mods.mods]>> \o rest.items]

RECURSIVE ModsPrice(_)
ModsPrice(mods) ==
    IF mods = {} THEN 0
    ELSE LET m == CHOOSE x \in mods : TRUE IN m.price + ModsPrice(mods \ {m})

\* A line total taken from the catalog's prices of today: what the
\* recalculations must not use.
LineTotalAtCatalogPrice(itemId) ==
    (menu[orderItems[itemId].menuItemId].price
     + ModsPrice({[m EXCEPT !.price = modifiers[m.modifierId].price] : m \in ModsOf(itemId)}))
    * orderItems[itemId].quantity

\* (item.price + sum of its modifiers' prices) * item.quantity, from stored rows.
LineTotal(itemId) ==
    (orderItems[itemId].price + ModsPrice(ModsOf(itemId))) * orderItems[itemId].quantity

RECURSIVE ItemsSubtotal(_)
ItemsSubtotal(itemIds) ==
    IF itemIds = {} THEN 0
    ELSE LET i == CHOOSE x \in itemIds : TRUE IN LineTotal(i) + ItemsSubtotal(itemIds \ {i})

--------------------------------------------------------------------------
\* Store writes shared by createOrder and addOrderItems: the rows of the
\* validated items are created one store call at a time, an item first and
\* then each of its modifiers.  loc.items are the items still to create and
\* loc.mods the modifiers still to create for the item created last.

\* The request has created every row: createOrder reads the order back and
\* returns it (201), addOrderItems goes on to write the totals.
RowsDone(s, loc, next) ==
    IF loc.mods = <<>> /\ loc.items = <<>>
    THEN IF next = "respond"
         THEN reqs' = [reqs EXCEPT ![s].pc = "respond", ![s].code = 201, ![s].loc = loc]
         ELSE Goto(s, next, loc)
    ELSE Goto(s, reqs[s].pc, loc)

\* prisma.orderItem.create, for the next validated item; the request goes
\* on to step `next` once every row is created.
CreateItemRow(s, orderId, next) ==
    LET loc == reqs[s].loc
        item == Head(loc.items)
        loc2 == [loc EXCEPT !.items = Tail(loc.items), !.mods = item.modifiers,
                            !.itemId = Len(orderItems) + 1]
    IN
    /\ loc.mods = <<>> /\ loc.items # <<>>
    /\ orderItems' = Append(orderItems,
                            [orderId |-> orderId, menuItemId |-> item.menuItemId,
                             quantity |-> item.quantity, price |-> item.price,
                             status |-> "PENDING"])
    /\ RowsDone(s, loc2, next)
    /\ UNCHANGED <<itemMods>>

\* prisma.orderItemModifier.create, for the next modifier of the item created
\* last; (orderItemId, modifierId) is unique, and a second row for the pair
\* throws.
CreateModifierRow(s, next) ==
    LET loc == reqs[s].loc
        mod == Head(loc.mods)
        loc2 == [loc EXCEPT !.mods = Tail(loc.mods)]
    IN
    /\ loc.mods # <<>>
    /\ IF \E m \in itemMods : m.orderItemId = loc.itemId /\ m.modifierId = mod.modifierId
       THEN /\ Reply(s, 400)
            /\ UNCHANGED <<itemMods>>
       ELSE /\ itemMods' = itemMods \cup {[orderItemId |-> loc.itemId,
                                           modifierId |-> mod.modifierId,
                                           price |-> mod.price]}
            /\ RowsDone(s, loc2, next)
    /\ UNCHANGED <<orderItems>>

--------------------------------------------------------------------------
\* createOrder: POST /api/orders

NoTable == "none"
NoCustomer == "none"

StartCreateOrder(s, user, tableId, customerId, items) ==
    /\ Begin(s, "createOrder", user,
             [restaurantId |-> user.restaurantId, tableId |-> tableId,
              customerId |-> customerId, orderItems |-> items], "co_table")
    /\ UNCHANGED <<catalog, tables, orderRows, voucherRows, payments, giftRows, clock>>

\* orderValidation of the route: orderItems has at least one entry and every
\* quantity is an integer >= 1.
ItemsWellFormed(items) ==
    items # <<>> /\ \A i \in DOMAIN items : items[i].quantity >= 1

\* The request's validation result, the restaurant lookup and the table
\* lookup (loc.tableStatus is the status of the table that was read).  A
\* non-admin creates for the caller's own restaurant.
CreateOrderCheckTable(s) ==
    /\ At(s, "createOrder", "co_table")
    /\ LET p == reqs[s].p
           loc == [restaurantId |-> p.restaurantId, subtotal |-> 0, tax |-> 0,
                   total |-> 0, items |-> <<>>, mods |-> <<>>, itemId |-> 0,
                   orderNumber |-> <<>>, orderId |-> 0,
                   tableStatus |-> IF p.tableId \in DOMAIN tables
                                   THEN tables[p.tableId].status ELSE "none"]
       IN IF ~ItemsWellFormed(p.orderItems) THEN Reply(s, 400)
          ELSE IF p.tableId = NoTable THEN Goto(s, "co_validate", loc)
          ELSE IF p.tableId \notin DOMAIN tables THEN Reply(s, 404)
          ELSE IF tables[p.tableId].restaurantId # p.restaurantId THEN Reply(s, 400)
          ELSE IF tables[p.tableId].status = "AVAILABLE"
               THEN Goto(s, "co_tableUpd", loc)
               ELSE Goto(s, "co_validate", loc)
    /\ UNCHANGED <<catalog, tables, orderRows, voucherRows, payments, giftRows, clock, nStarted>>

\* prisma.table.update: the table becomes OCCUPIED, before the customer and
\* the items are looked at and before the order exists.
CreateOrderOccupyTable(s) ==
    /\ At(s, "createOrder", "co_tableUpd")
    /\ tables' = [tables EXCEPT ![reqs[s].p.tableId].status = "OCCUPIED"]
    /\ Goto(s, "co_validate", reqs[s].loc)
    /\ UNCHANGED <<catalog, orderRows, voucherRows, payments, giftRows, clock, nStarted>>

OrdersOfRestaurant(restaurantId) ==
    {i \in DOMAIN orders : orders[i].restaurantId = restaurantId}

\* The customer lookup, the validation of the items against the catalog, the
\* totals, and prisma.order.count with the order number made from it: the
\* restaurant's prefix and the count plus one (the date in between is left
\* out).  The count is the one read of changing rows here.
CreateOrderValidate(s) ==
    /\ At(s, "createOrder", "co_validate")
    /\ LET p == reqs[s].p
           loc == reqs[s].loc
           v == ValidateItems(p.orderItems, loc.restaurantId)
           subtotal == v.subtotal
           tax == TaxOn(subtotal, TaxRateOf(loc.restaurantId))
           orderCount == Cardinality(OrdersOfRestaurant(loc.restaurantId))
       IN IF p.customerId # NoCustomer /\ p.customerId \notin Customers
          THEN Reply(s, 404)
          ELSE IF v.code # 0 THEN Reply(s, v.code)
          ELSE Goto(s, "co_create",
                    [loc EXCEPT !.subtotal = subtotal, !.tax = tax,
                                !.total = TotalOf(subtotal, tax), !.items = v.items,
                                !.orderNumber = <<loc.restaurantId, orderCount + 1>>])
    /\ UNCHANGED <<catalog, tables, orderRows, voucherRows, payments, giftRows, clock, nStarted>>

\* An order.create that stores the row whatever numbers are stored already:
\* what the store must not do, orderNumber being @unique.
CreateOrderRowUnchecked(s) ==
    /\ At(s, "createOrder", "co_create")
    /\ LET p == reqs[s].p
           loc == reqs[s].loc
       IN /\ orders' = Append(orders,
                  [orderNumber |-> loc.orderNumber, status |-> "PENDING",
                   subtotal |-> loc.subtotal, tax |-> loc.tax, tip |-> 0,
                   total |-> loc.total, tableId |-> p.tableId,
                   customerId |-> p.customerId, restaurantId |-> loc.restaurantId,
                   completedAt |-> 0])
          /\ Goto(s, "co_items", [loc EXCEPT !.orderId = Len(orders) + 1])
    /\ UNCHANGED <<catalog, tables, orderItems, itemMods, voucherRows, payments,
                   giftRows, clock, nStarted>>

\* prisma.order.create; orderNumber is @unique, and a second order with the
\* number throws.
CreateOrderRow(s) ==
    /\ At(s, "createOrder", "co_create")
    /\ LET p == reqs[s].p
           loc == reqs[s].loc
       IN IF \E i \in DOMAIN orders : orders[i].orderNumber = loc.orderNumber
          THEN /\ Reply(s, 400)
               /\ UNCHANGED orders
          ELSE /\ orders' = Append(orders,
                      [orderNumber |-> loc.orderNumber, status |-> "PENDING",
                       subtotal |-> loc.subtotal, tax |-> loc.tax, tip |-> 0,
                       total |-> loc.total, tableId |-> p.tableId,
                       customerId |-> p.customerId, restaurantId |-> loc.restaurantId,
                       completedAt |-> 0])
               /\ Goto(s, "co_items", [loc EXCEPT !.orderId = Len(orders) + 1])
    /\ UNCHANGED <<catalog, tables, orderItems, itemMods, voucherRows, payments,
                   giftRows, clock, nStarted>>

CreateOrderItem(s) ==
    /\ At(s, "createOrder", "co_items")
    /\ CreateItemRow(s, reqs[s].loc.orderId, "respond")
    /\ UNCHANGED <<catalog, tables, orders, voucherRows, payments, giftRows, clock, nStarted>>

CreateOrderItemModifier(s) ==
    /\ At(s, "createOrder", "co_items")
    /\ CreateModifierRow(s, "respond")
    /\ UNCHANGED <<catalog, tables, orders, voucherRows, payments, giftRows, clock, nStarted>>

--------------------------------------------------------------------------
\* addOrderItems: POST /api/orders/:id/items

StartAddOrderItems(s, user, id, items) ==
    /\ Begin(s, "addOrderItems", user, [id |-> id, orderItems |-> items], "ai_read")
    /\ UNCHANGED <<catalog, tables, orderRows, voucherRows, payments, giftRows, clock>>

\* The order is read, the items are validated against the catalog, and the
\* new totals are computed from the subtotal that was read.
AddOrderItemsRead(s) ==
    /\ At(s, "addOrderItems", "ai_read")
    /\ LET p == reqs[s].p IN
       IF ~ItemsWellFormed(p.orderItems) THEN Reply(s, 400)
       ELSE IF p.id \notin DOMAIN orders THEN Reply(s, 404)
       ELSE LET order == orders[p.id]
                v == ValidateItems(p.orderItems, order.restaurantId)
                newSubtotal == order.subtotal + v.subtotal
                newTax == TaxOn(newSubtotal, TaxRateOf(order.restaurantId))
            IN IF NotAuthorized(reqs[s].user, order.restaurantId) THEN Reply(s, 403)
               ELSE IF order.status \notin {"PENDING", "PREPARING", "READY"}
                    THEN Reply(s, 400)
               ELSE IF v.code # 0 THEN Reply(s, v.code)
               ELSE GotoWith(s, "ai_items", order,
                             [subtotal |-> newSubtotal, tax |-> newTax,
                              total |-> TotalOf(newSubtotal, newTax),
                              items |-> v.items, mods |-> <<>>, itemId |-> 0])
    /\ UNCHANGED <<catalog, tables, orderRows, voucherRows, payments, giftRows, clock, nStarted>>

AddOrderItemsItem(s) ==
    /\ At(s, "addOrderItems", "ai_items")
    /\ CreateItemRow(s, reqs[s].p.id, "ai_update")
    /\ UNCHANGED <<catalog, tables, orders, voucherRows, payments, giftRows, clock, nStarted>>

AddOrderItemsModifier(s) ==
    /\ At(s, "addOrderItems", "ai_items")
    /\ CreateModifierRow(s, "ai_update")
    /\ UNCHANGED <<catalog, tables, orders, voucherRows, payments, giftRows, clock, nStarted>>

\* prisma.order.update with the totals computed at the read.
AddOrderItemsUpdate(s) ==
    /\ At(s, "addOrderItems", "ai_update")
    /\ LET loc == reqs[s].loc IN
       orders' = [orders EXCEPT ![reqs[s].p.id].subtotal = loc.subtotal,
                                ![reqs[s].p.id].tax = loc.tax,
                                ![reqs[s].p.id].total = loc.total]
    /\ Reply(s, 200)
    /\ UNCHANGED <<catalog, tables, orderItems, itemMods, voucherRows, payments,
                   giftRows, clock, nStarted>>

--------------------------------------------------------------------------
\* updateOrderItem: PUT /api/orders/:orderId/items/:itemId
\* quantity and status are <<>> when the body leaves them out, <<v>> otherwise.

StartUpdateOrderItem(s, user, orderId, itemId, quantity, status) ==
    /\ Begin(s, "updateOrderItem", user,
             [orderId |-> orderId, itemId |-> itemId, quantity |-> quantity,
              status |-> status], "ui_read")
    /\ UNCHANGED <<catalog, tables, orderRows, voucherRows, payments, giftRows, clock>>

UpdateOrderItemRead(s) ==
    /\ At(s, "updateOrderItem", "ui_read")
    /\ LET p == reqs[s].p IN
       IF p.orderId \notin DOMAIN orders THEN Reply(s, 404)
       ELSE LET order == orders[p.orderId] IN
            IF NotAuthorized(reqs[s].user, order.restaurantId) THEN Reply(s, 403)
            ELSE IF order.status \notin {"PENDING", "PREPARING", "READY"}
                 THEN Reply(s, 400)
            ELSE GotoWith(s, "ui_item", order, <<>>)
    /\ UNCHANGED <<catalog, tables, orderRows, voucherRows, payments, giftRows, clock, nStarted>>

\* prisma.orderItem.findFirst({id: itemId, orderId})
UpdateOrderItemFind(s) ==
    /\ At(s, "updateOrderItem", "ui_item")
    /\ LET p == reqs[s].p IN
       IF p.itemId \in ItemsOf(p.orderId)
       THEN Goto(s, "ui_upd", [orderItem |-> orderItems[p.itemId]])
       ELSE Reply(s, 404)
    /\ UNCHANGED <<catalog, tables, orderRows, voucherRows, payments, giftRows, clock, nStarted>>

\* prisma.orderItem.update: the quantity when it is given and positive, the
\* status when it is given.  Updating a row that is gone throws.
UpdateOrderItemWrite(s) ==
    /\ At(s, "updateOrderItem", "ui_upd")
    /\ LET p == reqs[s].p
           row == orderItems[p.itemId]
           row1 == IF p.quantity # <<>> /\ p.quantity[1] > 0
                   THEN [row EXCEPT !.quantity = p.quantity[1]] ELSE row
           row2 == IF p.status # <<>> THEN [row1 EXCEPT !.status = p.status[1]] ELSE row1
       IN IF p.itemId \notin Live(orderItems)
          THEN /\ Reply(s, 500)
               /\ UNCHANGED orderItems
          ELSE /\ orderItems' = [orderItems EXCEPT ![p.itemId] = row2]
               /\ IF p.quantity # <<>> /\ p.quantity[1] # reqs[s].loc.orderItem.quantity
                  THEN Goto(s, "ui_recalc", reqs[s].loc)
                  ELSE Reply(s, 200)
    /\ UNCHANGED <<catalog, tables, orders, itemMods, voucherRows, payments, giftRows, clock,
                   nStarted>>

\* prisma.orderItem.findMany of the order with the modifiers: the subtotal
\* is summed again from the stored prices.
UpdateOrderItemRecalc(s) ==
    /\ At(s, "updateOrderItem", "ui_recalc")
    /\ LET newSubtotal == ItemsSubtotal(ItemsOf(reqs[s].p.orderId))
           newTax == TaxOn(newSubtotal, TaxRateOf(reqs[s].o.restaurantId))
       IN Goto(s, "ui_total", [subtotal |-> newSubtotal, tax |-> newTax,
                               total |-> TotalOf(newSubtotal, newTax)])
    /\ UNCHANGED <<catalog, tables, orderRows, voucherRows, payments, giftRows, clock, nStarted>>

UpdateOrderItemTotals(s) ==
    /\ At(s, "updateOrderItem", "ui_total")
    /\ LET loc == reqs[s].loc IN
       orders' = [orders EXCEPT ![reqs[s].p.orderId].subtotal = loc.subtotal,
                                ![reqs[s].p.orderId].tax = loc.tax,
                                ![reqs[s].p.orderId].total = loc.total]
    /\ Reply(s, 200)
    /\ UNCHANGED <<catalog, tables, orderItems, itemMods, voucherRows, payments,
                   giftRows, clock, nStarted>>

--------------------------------------------------------------------------
\* removeOrderItem: DELETE /api/orders/:orderId/items/:itemId

StartRemoveOrderItem(s, user, orderId, itemId) ==
    /\ Begin(s, "removeOrderItem", user, [orderId |-> orderId, itemId |-> itemId],
             "ri_read")
    /\ UNCHANGED <<catalog, tables, orderRows, voucherRows, payments, giftRows, clock>>

\* The order is read with its items: only a PENDING order with more than
\* one item may lose one.
RemoveOrderItemRead(s) ==
    /\ At(s, "removeOrderItem", "ri_read")
    /\ LET p == reqs[s].p IN
       IF p.orderId \notin DOMAIN orders THEN Reply(s, 404)
       ELSE LET order == orders[p.orderId] IN
            IF NotAuthorized(reqs[s].user, order.restaurantId) THEN Reply(s, 403)
            ELSE IF order.status # "PENDING" THEN Reply(s, 400)
            ELSE IF Cardinality(ItemsOf(p.orderId)) <= 1 THEN Reply(s, 400)
            ELSE GotoWith(s, "ri_item", order, <<>>)
    /\ UNCHANGED <<catalog, tables, orderRows, voucherRows, payments, giftRows, clock, nStarted>>

\* prisma.orderItem.findFirst with the modifiers, and the item's line total.
RemoveOrderItemFind(s) ==
    /\ At(s, "removeOrderItem", "ri_item")
    /\ LET p == reqs[s].p IN
       IF p.itemId \in ItemsOf(p.orderId)
       THEN Goto(s, "ri_delMods", [itemTotal |-> LineTotal(p.itemId)])
       ELSE Reply(s, 404)
    /\ UNCHANGED <<catalog, tables, orderRows, voucherRows, payments, giftRows, clock, nStarted>>

\* prisma.orderItemModifier.deleteMany
RemoveOrderItemModifiers(s) ==
    /\ At(s, "removeOrderItem", "ri_delMods")
    /\ itemMods' = itemMods \ ModsOf(reqs[s].p.itemId)
    /\ Goto(s, "ri_del", reqs[s].loc)
    /\ UNCHANGED <<catalog, tables, orders, orderItems, voucherRows, payments, giftRows, clock,
                   nStarted>>

\* prisma.orderItem.delete; deleting a row that is gone throws.
RemoveOrderItemDelete(s) ==
    /\ At(s, "removeOrderItem", "ri_del")
    /\ IF reqs[s].p.itemId \notin Live(orderItems)
       THEN /\ Reply(s, 500)
            /\ UNCHANGED orderItems
       ELSE /\ orderItems' = [orderItems EXCEPT ![reqs[s].p.itemId] = NoRow]
            /\ Goto(s, "ri_update", reqs[s].loc)
    /\ UNCHANGED <<catalog, tables, orders, itemMods, voucherRows, payments, giftRows, clock,
                   nStarted>>

\* The totals are the subtotal that was read less the item's line total.
RemoveOrderItemUpdate(s) ==
    /\ At(s, "removeOrderItem", "ri_update")
    /\ LET newSubtotal == reqs[s].o.subtotal - reqs[s].loc.itemTotal
           newTax == TaxOn(newSubtotal, TaxRateOf(reqs[s].o.restaurantId))
       IN orders' = [orders EXCEPT ![reqs[s].p.orderId].subtotal = newSubtotal,
                                   ![reqs[s].p.orderId].tax = newTax,
                                   ![reqs[s].p.orderId].total = TotalOf(newSubtotal, newTax)]
    /\ Reply(s, 200)
    /\ UNCHANGED <<catalog, tables, orderItems, itemMods, voucherRows, payments,
                   giftRows, clock, nStarted>>

--------------------------------------------------------------------------
\* applyVoucher: POST /api/vouchers/apply

RedemptionsOf(orderId) ==
    {i \in Live(redemptions) : redemptions[i].orderId = orderId}

\* A percentage voucher that takes what it should leave: what the discount
\* must not be.
DiscountAmountKept(voucher, subtotal) ==
    IF voucher.type = "PERCENTAGE"
    THEN RoundCents(subtotal * (100 - voucher.value), 100)
    ELSE IF voucher.type = "FIXED_AMOUNT" THEN Min(voucher.value, subtotal)
    ELSE voucher.value

\* The discount of a voucher on a subtotal, rounded to cents.
DiscountAmount(voucher, subtotal) ==
    IF voucher.type = "PERCENTAGE" THEN RoundCents(subtotal * voucher.value, 100)
    ELSE IF voucher.type = "FIXED_AMOUNT" THEN Min(voucher.value, subtotal)
    ELSE voucher.value

\* A total that leaves the tax out: what the voucher handlers must not write.
VoucherTotalNoTax(subtotal, tax, tip) == subtotal + tip

\* newTotal = newSubtotal + newTax + (order.tip || 0)
VoucherTotal(subtotal, tax, tip) == subtotal + tax + tip

StartApplyVoucher(s, user, code, orderId) ==
    /\ Begin(s, "applyVoucher", user, [code |-> code, orderId |-> orderId], "av_read")
    /\ UNCHANGED <<catalog, tables, orderRows, voucherRows, payments, giftRows, clock>>

\* The order is read with its redemptions.
ApplyVoucherRead(s) ==
    /\ At(s, "applyVoucher", "av_read")
    /\ LET p == reqs[s].p IN
       IF p.orderId \notin DOMAIN orders THEN Reply(s, 404)
       ELSE LET order == orders[p.orderId] IN
            IF NotAuthorized(reqs[s].user, order.restaurantId) THEN Reply(s, 403)
            ELSE IF RedemptionsOf(p.orderId) # {} THEN Reply(s, 400)
            ELSE GotoWith(s, "av_voucher", order, <<>>)
    /\ UNCHANGED <<catalog, tables, orderRows, voucherRows, payments, giftRows, clock, nStarted>>

\* The voucher is looked up by code and checked, and the discounted totals
\* are computed from the order that was read.
ApplyVoucherCheck(s) ==
    /\ At(s, "applyVoucher", "av_voucher")
    /\ LET p == reqs[s].p
           order == reqs[s].o
       IN IF p.code \notin DOMAIN vouchers \/ vouchers[p.code].restaurantId # order.restaurantId
          THEN Reply(s, 404)
          ELSE LET voucher == vouchers[p.code]
                   discountAmount == DiscountAmount(voucher, order.subtotal)
                   newSubtotal == Max(0, order.subtotal - discountAmount)
                   newTax == TaxOn(newSubtotal, TaxRateOf(order.restaurantId))
               IN IF ~voucher.isActive THEN Reply(s, 400)
                  ELSE IF Now < voucher.startDate THEN Reply(s, 400)
                  ELSE IF Now > voucher.expiryDate THEN Reply(s, 400)
                  ELSE IF voucher.usageLimit # NoLimit
                          /\ voucher.usageCount >= voucher.usageLimit THEN Reply(s, 400)
                  ELSE IF voucher.minPurchase > order.subtotal THEN Reply(s, 400)
                  ELSE Goto(s, "av_update",
                            [subtotal |-> newSubtotal, tax |-> newTax,
                             total |-> VoucherTotal(newSubtotal, newTax, order.tip),
                             redemptionId |-> 0])
    /\ UNCHANGED <<catalog, tables, orderRows, voucherRows, payments, giftRows, clock, nStarted>>

\* prisma.order.update: the discounted totals.
ApplyVoucherUpdate(s) ==
    /\ At(s, "applyVoucher", "av_update")
    /\ LET loc == reqs[s].loc IN
       orders' = [orders EXCEPT ![reqs[s].p.orderId].subtotal = loc.subtotal,
                                ![reqs[s].p.orderId].tax = loc.tax,
                                ![reqs[s].p.orderId].total = loc.total]
    /\ Goto(s, "av_redeem", reqs[s].loc)
    /\ UNCHANGED <<catalog, tables, orderItems, itemMods, voucherRows, payments,
                   giftRows, clock, nStarted>>

\* const redemption = await prisma.voucherRedemption.create
ApplyVoucherRedeem(s) ==
    /\ At(s, "applyVoucher", "av_redeem")
    /\ redemptions' = Append(redemptions,
                             [code |-> reqs[s].p.code, orderId |-> reqs[s].p.orderId])
    /\ Goto(s, "av_incr", [reqs[s].loc EXCEPT !.redemptionId = Len(redemptions) + 1])
    /\ UNCHANGED <<catalog, tables, orderRows, vouchers, payments, giftRows, clock, nStarted>>

\* prisma.voucher.update: usageCount: {increment: 1}
ApplyVoucherCount(s) ==
    /\ At(s, "applyVoucher", "av_incr")
    /\ vouchers' = [vouchers EXCEPT ![reqs[s].p.code].usageCount = @ + 1]
    /\ Reply(s, 200)
    /\ UNCHANGED <<catalog, tables, orderRows, redemptions, payments, giftRows, clock, nStarted>>

--------------------------------------------------------------------------
\* removeVoucher: DELETE /api/vouchers/remove/:orderId

\* The subtotal before the voucher, rebuilt from the current subtotal and the
\* voucher's type and value, rounded to cents.
OriginalSubtotal(voucher, subtotal) ==
    IF voucher.type = "PERCENTAGE"
    THEN RoundCents(subtotal * 100, 100 - voucher.value)
    ELSE subtotal + voucher.value

StartRemoveVoucher(s, user, orderId) ==
    /\ Begin(s, "removeVoucher", user, [orderId |-> orderId], "rv_read")
    /\ UNCHANGED <<catalog, tables, orderRows, voucherRows, payments, giftRows, clock>>

\* The order is read with its redemptions and their vouchers; the first
\* redemption is the one undone.
RemoveVoucherRead(s) ==
    /\ At(s, "removeVoucher", "rv_read")
    /\ LET p == reqs[s].p IN
       IF p.orderId \notin DOMAIN orders THEN Reply(s, 404)
       ELSE LET order == orders[p.orderId] IN
            IF NotAuthorized(reqs[s].user, order.restaurantId) THEN Reply(s, 403)
            ELSE IF RedemptionsOf(p.orderId) = {} THEN Reply(s, 400)
            ELSE LET id == CHOOSE i \in RedemptionsOf(p.orderId) :
                               \A j \in RedemptionsOf(p.orderId) : i <= j
                     voucher == vouchers[redemptions[id].code]
                     originalSubtotal == OriginalSubtotal(voucher, order.subtotal)
                     newTax == TaxOn(originalSubtotal, TaxRateOf(order.restaurantId))
                 IN GotoWith(s, "rv_update", order,
                             [redemptionId |-> id, code |-> redemptions[id].code,
                              subtotal |-> originalSubtotal, tax |-> newTax,
                              total |-> VoucherTotal(originalSubtotal, newTax, order.tip)])
    /\ UNCHANGED <<catalog, tables, orderRows, voucherRows, payments, giftRows, clock, nStarted>>

\* prisma.order.update: the rebuilt totals.
RemoveVoucherUpdate(s) ==
    /\ At(s, "removeVoucher", "rv_update")
    /\ LET loc == reqs[s].loc IN
       orders' = [orders EXCEPT ![reqs[s].p.orderId].subtotal = loc.subtotal,
                                ![reqs[s].p.orderId].tax = loc.tax,
                                ![reqs[s].p.orderId].total = loc.total]
    /\ Goto(s, "rv_delete", reqs[s].loc)
    /\ UNCHANGED <<catalog, tables, orderItems, itemMods, voucherRows, payments,
                   giftRows, clock, nStarted>>

\* prisma.voucherRedemption.delete; deleting a row that is gone throws.
RemoveVoucherDelete(s) ==
    /\ At(s, "removeVoucher", "rv_delete")
    /\ IF reqs[s].loc.redemptionId \notin Live(redemptions)
       THEN /\ Reply(s, 500)
            /\ UNCHANGED redemptions
       ELSE /\ redemptions' = [redemptions EXCEPT ![reqs[s].loc.redemptionId] = NoRow]
            /\ Goto(s, "rv_decr", reqs[s].loc)
    /\ UNCHANGED <<catalog, tables, orderRows, vouchers, payments, giftRows, clock, nStarted>>

\* prisma.voucher.update: usageCount: {decrement: 1}
RemoveVoucherCount(s) ==
    /\ At(s, "removeVoucher", "rv_decr")
    /\ vouchers' = [vouchers EXCEPT ![reqs[s].loc.code].usageCount = @ - 1]
    /\ Reply(s, 200)
    /\ UNCHANGED <<catalog, tables, orderRows, redemptions, payments, giftRows, clock, nStarted>>

--------------------------------------------------------------------------
\* Table release, as updateOrderStatus, cancelOrder and createPayment do it.

\* prisma.order.count of the active orders on a table, the order `id` left out.
OtherActiveOrders(tableId, id) ==
    Cardinality({i \in DOMAIN orders : /\ i # id
                                       /\ orders[i].tableId = tableId
                                       /\ orders[i].status \in ActiveStatus})

\* prisma.table.update({data: {status: 'AVAILABLE'}})
ReleaseTable(tableId) ==
    tables' = [tables EXCEPT ![tableId].status = "AVAILABLE"]

--------------------------------------------------------------------------
\* updateOrderStatus: PUT /api/orders/:id/status

StartUpdateOrderStatus(s, user, id, status) ==
    /\ Begin(s, "updateOrderStatus", user, [id |-> id, status |-> status], "us_read")
    /\ UNCHANGED <<catalog, tables, orderRows, voucherRows, payments, giftRows, clock>>

\* The status must be one of the enum; the order is read.  The current
\* status of the order is not looked at.  updateData.completedAt = new Date()
\* is taken here, before the table is looked at, and kept in loc.
UpdateOrderStatusRead(s) ==
    /\ At(s, "updateOrderStatus", "us_read")
    /\ LET p == reqs[s].p IN
       IF p.status \notin OrderStatus THEN Reply(s, 400)
       ELSE IF p.id \notin DOMAIN orders THEN Reply(s, 404)
       ELSE LET order == orders[p.id] IN
            IF NotAuthorized(reqs[s].user, order.restaurantId) THEN Reply(s, 403)
            ELSE IF p.status \in TerminalStatus /\ order.tableId # NoTable
                 THEN GotoWith(s, "us_count", order, [completedAt |-> clock])
                 ELSE GotoWith(s, "us_update", order, [completedAt |-> clock])
    /\ UNCHANGED <<catalog, tables, orderRows, voucherRows, payments, giftRows, clock, nStarted>>

UpdateOrderStatusCount(s) ==
    /\ At(s, "updateOrderStatus", "us_count")
    /\ IF OtherActiveOrders(reqs[s].o.tableId, reqs[s].p.id) = 0
       THEN Goto(s, "us_table", reqs[s].loc)
       ELSE Goto(s, "us_update", reqs[s].loc)
    /\ UNCHANGED <<catalog, tables, orderRows, voucherRows, payments, giftRows, clock, nStarted>>

\* The table is released before the order's status is written.
UpdateOrderStatusTable(s) ==
    /\ At(s, "updateOrderStatus", "us_table")
    /\ ReleaseTable(reqs[s].o.tableId)
    /\ Goto(s, "us_update", reqs[s].loc)
    /\ UNCHANGED <<catalog, orderRows, voucherRows, payments, giftRows, clock, nStarted>>

\* prisma.order.update({data: updateData}): the requested status, and
\* completedAt when it is COMPLETED or CANCELLED.
UpdateOrderStatusWrite(s) ==
    /\ At(s, "updateOrderStatus", "us_update")
    /\ LET p == reqs[s].p IN
       orders' = [orders EXCEPT ![p.id].status = p.status,
                                ![p.id].completedAt =
                                    IF p.status \in TerminalStatus
                                    THEN reqs[s].loc.completedAt ELSE @]
    /\ Reply(s, 200)
    /\ UNCHANGED <<catalog, tables, orderItems, itemMods, voucherRows, payments,
                   giftRows, clock, nStarted>>

--------------------------------------------------------------------------
\* cancelOrder: PUT /api/orders/:id/cancel

StartCancelOrder(s, user, id) ==
    /\ Begin(s, "cancelOrder", user, [id |-> id], "cn_read")
    /\ UNCHANGED <<catalog, tables, orderRows, voucherRows, payments, giftRows, clock>>

CancelOrderRead(s) ==
    /\ At(s, "cancelOrder", "cn_read")
    /\ LET p == reqs[s].p IN
       IF p.id \notin DOMAIN orders THEN Reply(s, 404)
       ELSE LET order == orders[p.id] IN
            IF NotAuthorized(reqs[s].user, order.restaurantId) THEN Reply(s, 403)
            ELSE IF order.status \notin {"PENDING", "PREPARING", "READY"}
                 THEN Reply(s, 400)
            ELSE GotoWith(s, "cn_update", order, <<>>)
    /\ UNCHANGED <<catalog, tables, orderRows, voucherRows, payments, giftRows, clock, nStarted>>

\* prisma.order.update: CANCELLED and completedAt.
CancelOrderWrite(s) ==
    /\ At(s, "cancelOrder", "cn_update")
    /\ orders' = [orders EXCEPT ![reqs[s].p.id].status = "CANCELLED",
                                ![reqs[s].p.id].completedAt = clock]
    /\ IF reqs[s].o.tableId # NoTable THEN Goto(s, "cn_count", <<>>) ELSE Reply(s, 200)
    /\ UNCHANGED <<catalog, tables, orderItems, itemMods, voucherRows, payments,
                   giftRows, clock, nStarted>>

CancelOrderCount(s) ==
    /\ At(s, "cancelOrder", "cn_count")
    /\ IF OtherActiveOrders(reqs[s].o.tableId, reqs[s].p.id) = 0
       THEN Goto(s, "cn_table", <<>>)
       ELSE Reply(s, 200)
    /\ UNCHANGED <<catalog, tables, orderRows, voucherRows, payments, giftRows, clock, nStarted>>

CancelOrderTable(s) ==
    /\ At(s, "cancelOrder", "cn_table")
    /\ ReleaseTable(reqs[s].o.tableId)
    /\ Reply(s, 200)
    /\ UNCHANGED <<catalog, orderRows, voucherRows, payments, giftRows, clock, nStarted>>

--------------------------------------------------------------------------
\* createPayment: POST /api/payments

RECURSIVE SumAmounts(_, _)
SumAmounts(rows, ids) ==
    IF ids = {} THEN 0
    ELSE LET i == CHOOSE x \in ids : TRUE IN rows[i].amount + SumAmounts(rows, ids \ {i})

\* The sum of the order's COMPLETED payments.
TotalPaid(orderId) ==
    SumAmounts(payments, {i \in DOMAIN payments : /\ payments[i].orderId = orderId
                                                  /\ payments[i].status = "COMPLETED"})

StartCreatePayment(s, user, orderId, amount) ==
    /\ Begin(s, "createPayment", user, [orderId |-> orderId, amount |-> amount], "cp_read")
    /\ UNCHANGED <<catalog, tables, orderRows, voucherRows, payments, giftRows, clock>>

\* The route wants amount >= 0.01.  The order is read with its payments; a
\* cancelled order takes no payment, and neither does one the payment
\* would overpay.
CreatePaymentRead(s) ==
    /\ At(s, "createPayment", "cp_read")
    /\ LET p == reqs[s].p IN
       IF p.amount < Cent THEN Reply(s, 400)
       ELSE IF p.orderId \notin DOMAIN orders THEN Reply(s, 404)
       ELSE LET order == orders[p.orderId]
                totalPaid == TotalPaid(p.orderId)
            IN IF NotAuthorized(reqs[s].user, order.restaurantId) THEN Reply(s, 403)
               ELSE IF order.status = "CANCELLED" THEN Reply(s, 400)
               ELSE IF totalPaid + p.amount > order.total THEN Reply(s, 400)
               ELSE GotoWith(s, "cp_create", order, [totalPaid |-> totalPaid])
    /\ UNCHANGED <<catalog, tables, orderRows, voucherRows, payments, giftRows, clock, nStarted>>

\* prisma.payment.create with status COMPLETED.  When the order that was
\* read is now fully paid: a SERVED order is completed, and the table is
\* looked at whatever the order's status.
CreatePaymentRow(s) ==
    /\ At(s, "createPayment", "cp_create")
    /\ LET p == reqs[s].p
           order == reqs[s].o
           newTotalPaid == reqs[s].loc.totalPaid + p.amount
       IN /\ payments' = Append(payments, [orderId |-> p.orderId, amount |-> p.amount,
                                           status |-> "COMPLETED"])
          /\ IF newTotalPaid < order.total THEN Reply(s, 201)
             ELSE IF order.status = "SERVED" THEN Goto(s, "cp_complete", reqs[s].loc)
             ELSE IF order.tableId # NoTable THEN Goto(s, "cp_count", reqs[s].loc)
             ELSE Reply(s, 201)
    /\ UNCHANGED <<catalog, tables, orderRows, voucherRows, giftRows, clock, nStarted>>

\* prisma.order.update: COMPLETED and completedAt.
CreatePaymentComplete(s) ==
    /\ At(s, "createPayment", "cp_complete")
    /\ orders' = [orders EXCEPT ![reqs[s].p.orderId].status = "COMPLETED",
                                ![reqs[s].p.orderId].completedAt = clock]
    /\ IF reqs[s].o.tableId # NoTable THEN Goto(s, "cp_count", reqs[s].loc)
       ELSE Reply(s, 201)
    /\ UNCHANGED <<catalog, tables, orderItems, itemMods, voucherRows, payments,
                   giftRows, clock, nStarted>>

CreatePaymentCount(s) ==
    /\ At(s, "createPayment", "cp_count")
    /\ IF OtherActiveOrders(reqs[s].o.tableId, reqs[s].p.orderId) = 0
       THEN Goto(s, "cp_table", reqs[s].loc)
       ELSE Reply(s, 201)
    /\ UNCHANGED <<catalog, tables, orderRows, voucherRows, payments, giftRows, clock, nStarted>>

CreatePaymentTable(s) ==
    /\ At(s, "createPayment", "cp_table")
    /\ ReleaseTable(reqs[s].o.tableId)
    /\ Reply(s, 201)
    /\ UNCHANGED <<catalog, orderRows, voucherRows, payments, giftRows, clock, nStarted>>

--------------------------------------------------------------------------
\* updateOrderItemStatus: PUT /api/kitchen/order-items/:id/status

StartUpdateOrderItemStatus(s, user, id, status) ==
    /\ Begin(s, "updateOrderItemStatus", user, [id |-> id, status |-> status], "is_read")
    /\ UNCHANGED <<catalog, tables, orderRows, voucherRows, payments, giftRows, clock>>

\* The item is read with its order; the order's status is not looked at.
UpdateOrderItemStatusRead(s) ==
    /\ At(s, "updateOrderItemStatus", "is_read")
    /\ LET p == reqs[s].p IN
       IF p.status \notin OrderItemStatus THEN Reply(s, 400)
       ELSE IF p.id \notin Live(orderItems) THEN Reply(s, 404)
       ELSE LET orderItem == orderItems[p.id]
                order == orders[orderItem.orderId]
            IN IF NotAuthorized(reqs[s].user, order.restaurantId) THEN Reply(s, 403)
               ELSE GotoWith(s, "is_upd", order, [orderId |-> orderItem.orderId])
    /\ UNCHANGED <<catalog, tables, orderRows, voucherRows, payments, giftRows, clock, nStarted>>

\* prisma.orderItem.update({data: {status}}); updating a row that is gone throws.
UpdateOrderItemStatusWrite(s) ==
    /\ At(s, "updateOrderItemStatus", "is_upd")
    /\ IF reqs[s].p.id \notin Live(orderItems)
       THEN /\ Reply(s, 500)
            /\ UNCHANGED orderItems
       ELSE /\ orderItems' = [orderItems EXCEPT ![reqs[s].p.id].status = reqs[s].p.status]
            /\ Goto(s, "is_all", reqs[s].loc)
    /\ UNCHANGED <<catalog, tables, orders, itemMods, voucherRows, payments, giftRows, clock,
                   nStarted>>

\* The order status that follows from the items' statuses and the order
\* status that was read: SERVED when every item is SERVED and the order was
\* not; else READY when (every item is READY or SERVED and the order was
\* PENDING) or the order was PREPARING; else none.
PromotedStatus(itemIds, orderStatus) ==
    LET allReady == \A i \in itemIds : orderItems[i].status \in {"READY", "SERVED"}
        allServed == \A i \in itemIds : orderItems[i].status = "SERVED"
    IN IF allServed /\ orderStatus # "SERVED" THEN <<"SERVED">>
       ELSE IF (allReady /\ orderStatus = "PENDING") \/ orderStatus = "PREPARING"
            THEN <<"READY">>
       ELSE <<>>

\* prisma.orderItem.findMany of the order's items.
UpdateOrderItemStatusAll(s) ==
    /\ At(s, "updateOrderItemStatus", "is_all")
    /\ LET promoted == PromotedStatus(ItemsOf(reqs[s].loc.orderId), reqs[s].o.status) IN
       IF promoted = <<>> THEN Reply(s, 200)
       ELSE Goto(s, "is_order", [orderId |-> reqs[s].loc.orderId, status |-> promoted[1]])
    /\ UNCHANGED <<catalog, tables, orderRows, voucherRows, payments, giftRows, clock, nStarted>>

\* prisma.order.update({data: {status}})
UpdateOrderItemStatusOrder(s) ==
    /\ At(s, "updateOrderItemStatus", "is_order")
    /\ orders' = [orders EXCEPT ![reqs[s].loc.orderId].status = reqs[s].loc.status]
    /\ Reply(s, 200)
    /\ UNCHANGED <<catalog, tables, orderItems, itemMods, voucherRows, payments,
                   giftRows, clock, nStarted>>

--------------------------------------------------------------------------
\* updateKitchenOrderStatus: PUT /api/kitchen/orders/:id/status

StartUpdateKitchenOrderStatus(s, user, id, status) ==
    /\ Begin(s, "updateKitchenOrderStatus", user, [id |-> id, status |-> status],
             "ks_read")
    /\ UNCHANGED <<catalog, tables, orderRows, voucherRows, payments, giftRows, clock>>

\* Only PREPARING and READY may be asked for, and only of a PENDING or
\* PREPARING order.
UpdateKitchenOrderStatusRead(s) ==
    /\ At(s, "updateKitchenOrderStatus", "ks_read")
    /\ LET p == reqs[s].p IN
       IF p.status \notin {"PREPARING", "READY"} THEN Reply(s, 400)
       ELSE IF p.id \notin DOMAIN orders THEN Reply(s, 404)
       ELSE LET order == orders[p.id] IN
            IF NotAuthorized(reqs[s].user, order.restaurantId) THEN Reply(s, 403)
            ELSE IF order.status \notin {"PENDING", "PREPARING"} THEN Reply(s, 400)
            ELSE GotoWith(s, "ks_update", order, <<>>)
    /\ UNCHANGED <<catalog, tables, orderRows, voucherRows, payments, giftRows, clock, nStarted>>

\* prisma.order.update({data: {status}})
UpdateKitchenOrderStatusWrite(s) ==
    /\ At(s, "updateKitchenOrderStatus", "ks_update")
    /\ orders' = [orders EXCEPT ![reqs[s].p.id].status = reqs[s].p.status]
    /\ Goto(s, "ks_items", <<>>)
    /\ UNCHANGED <<catalog, tables, orderItems, itemMods, voucherRows, payments,
                   giftRows, clock, nStarted>>

\* prisma.orderItem.updateMany: to PREPARING the PENDING items, to READY the
\* PREPARING items.
UpdateKitchenOrderStatusItems(s) ==
    /\ At(s, "updateKitchenOrderStatus", "ks_items")
    /\ LET p == reqs[s].p
           from == IF p.status = "PREPARING" THEN "PENDING" ELSE "PREPARING"
       IN orderItems' = [i \in DOMAIN orderItems |->
                            IF i \in ItemsOf(p.id) /\ orderItems[i].status = from
                            THEN [orderItems[i] EXCEPT !.status = p.status]
                            ELSE orderItems[i]]
    /\ Reply(s, 200)
    /\ UNCHANGED <<catalog, tables, orders, itemMods, voucherRows, payments, giftRows, clock,
                   nStarted>>

--------------------------------------------------------------------------
\* Gift cards.  A GiftCard row's id is its index in giftCards; the ledger
\* giftTx is a sequence of [giftCardId, amount, type] rows.

\* expiryDate is null.
NoExpiry == -1
\* redeemGiftCard without an orderId.
NoOrder == 0

CardsWithCode(code) == {i \in DOMAIN giftCards : giftCards[i].code = code}

\* prisma.giftCardTransaction.create
LedgerEntry(giftCardId, amount, type) ==
    giftTx' = Append(giftTx, [giftCardId |-> giftCardId, amount |-> amount, type |-> type])

--------------------------------------------------------------------------
\* createGiftCard: POST /api/gift-cards

StartCreateGiftCard(s, user, initialBalance, code, customerId) ==
    /\ Begin(s, "createGiftCard", user,
             [initialBalance |-> initialBalance, code |-> code,
              customerId |-> customerId, restaurantId |-> user.restaurantId],
             "gc_check")
    /\ UNCHANGED <<catalog, tables, orderRows, voucherRows, payments, giftRows, clock>>

\* The route wants initialBalance >= 1; the customer is looked up, and
\* prisma.giftCard.findFirst looks for the code in the restaurant.
CreateGiftCardCheck(s) ==
    /\ At(s, "createGiftCard", "gc_check")
    /\ LET p == reqs[s].p IN
       IF p.initialBalance < 100 * Cent THEN Reply(s, 400)
       ELSE IF p.customerId # NoCustomer /\ p.customerId \notin Customers THEN Reply(s, 404)
       ELSE IF \E i \in CardsWithCode(p.code) : giftCards[i].restaurantId = p.restaurantId
            THEN Reply(s, 400)
       ELSE Goto(s, "gc_create", [id |-> 0])
    /\ UNCHANGED <<catalog, tables, orderRows, voucherRows, payments, giftRows, clock, nStarted>>

\* prisma.giftCard.create with currentBalance = initialBalance; code is
\* @unique, and a second card with the code throws.
CreateGiftCardRow(s) ==
    /\ At(s, "createGiftCard", "gc_create")
    /\ LET p == reqs[s].p IN
       IF CardsWithCode(p.code) # {}
       THEN /\ Reply(s, 400)
            /\ UNCHANGED giftCards
       ELSE /\ giftCards' = Append(giftCards,
                                   [code |-> p.code, initialBalance |-> p.initialBalance,
                                    currentBalance |-> p.initialBalance, isActive |-> TRUE,
                                    expiryDate |-> NoExpiry,
                                    restaurantId |-> p.restaurantId])
            /\ Goto(s, "gc_tx", [id |-> Len(giftCards) + 1])
    /\ UNCHANGED <<catalog, tables, orderRows, voucherRows, payments, giftTx, clock, nStarted>>

\* The ISSUE transaction, of amount initialBalance.
CreateGiftCardLedger(s) ==
    /\ At(s, "createGiftCard", "gc_tx")
    /\ LedgerEntry(reqs[s].loc.id, reqs[s].p.initialBalance, "ISSUE")
    /\ Reply(s, 201)
    /\ UNCHANGED <<catalog, tables, orderRows, voucherRows, payments, giftCards, clock,
                   nStarted>>

--------------------------------------------------------------------------
\* redeemGiftCard: POST /api/gift-cards/redeem

StartRedeemGiftCard(s, user, code, amount, orderId) ==
    /\ Begin(s, "redeemGiftCard", user,
             [code |-> code, amount |-> amount, orderId |-> orderId], "rg_read")
    /\ UNCHANGED <<catalog, tables, orderRows, voucherRows, payments, giftRows, clock>>

\* The route wants amount >= 0.01.  The card is found by code in the
\* caller's restaurant and must be active, not expired, and hold the amount.
RedeemGiftCardRead(s) ==
    /\ At(s, "redeemGiftCard", "rg_read")
    /\ LET p == reqs[s].p
           found == {i \in CardsWithCode(p.code) :
                        giftCards[i].restaurantId = reqs[s].user.restaurantId}
       IN IF p.amount < Cent THEN Reply(s, 400)
          ELSE IF found = {} THEN Reply(s, 404)
          ELSE LET id == CHOOSE i \in found : TRUE
                   giftCard == giftCards[id]
               IN IF ~giftCard.isActive THEN Reply(s, 400)
                  ELSE IF giftCard.expiryDate # NoExpiry /\ giftCard.expiryDate < clock
                       THEN Reply(s, 400)
                  ELSE IF giftCard.currentBalance < p.amount THEN Reply(s, 400)
                  ELSE Goto(s, IF p.orderId # NoOrder THEN "rg_order" ELSE "rg_update",
                            [id |-> id, currentBalance |-> giftCard.currentBalance])
    /\ UNCHANGED <<catalog, tables, orderRows, voucherRows, payments, giftRows, clock, nStarted>>

\* prisma.order.findUnique, when an orderId is given.
RedeemGiftCardOrder(s) ==
    /\ At(s, "redeemGiftCard", "rg_order")
    /\ LET p == reqs[s].p IN
       IF p.orderId \notin DOMAIN orders THEN Reply(s, 404)
       ELSE IF orders[p.orderId].restaurantId # reqs[s].user.restaurantId THEN Reply(s, 403)
       ELSE GotoWith(s, "rg_pay", orders[p.orderId], reqs[s].loc)
    /\ UNCHANGED <<catalog, tables, orderRows, voucherRows, payments, giftRows, clock, nStarted>>

\* prisma.payment.create: a COMPLETED payment of the amount (method GIFT_CARD).
RedeemGiftCardPay(s) ==
    /\ At(s, "redeemGiftCard", "rg_pay")
    /\ payments' = Append(payments, [orderId |-> reqs[s].p.orderId,
                                     amount |-> reqs[s].p.amount, status |-> "COMPLETED"])
    /\ Goto(s, "rg_update", reqs[s].loc)
    /\ UNCHANGED <<catalog, tables, orderRows, voucherRows, giftRows, clock, nStarted>>

\* prisma.giftCard.update: currentBalance: {decrement: amount} on the stored
\* balance, isActive from the balance that was read.
RedeemGiftCardUpdate(s) ==
    /\ At(s, "redeemGiftCard", "rg_update")
    /\ LET id == reqs[s].loc.id
           amount == reqs[s].p.amount
       IN giftCards' = [giftCards EXCEPT
                            ![id].currentBalance = @ - amount,
                            ![id].isActive = reqs[s].loc.currentBalance - amount > 0]
    /\ Goto(s, "rg_tx", reqs[s].loc)
    /\ UNCHANGED <<catalog, tables, orderRows, voucherRows, payments, giftTx, clock, nStarted>>

\* The REDEEM transaction.
RedeemGiftCardLedger(s) ==
    /\ At(s, "redeemGiftCard", "rg_tx")
    /\ LedgerEntry(reqs[s].loc.id, reqs[s].p.amount, "REDEEM")
    /\ Reply(s, 200)
    /\ UNCHANGED <<catalog, tables, orderRows, voucherRows, payments, giftCards, clock,
                   nStarted>>

--------------------------------------------------------------------------
\* addFunds: POST /api/gift-cards/:id/add-funds

StartAddFunds(s, user, id, amount) ==
    /\ Begin(s, "addFunds", user, [id |-> id, amount |-> amount], "af_read")
    /\ UNCHANGED <<catalog, tables, orderRows, voucherRows, payments, giftRows, clock>>

AddFundsRead(s) ==
    /\ At(s, "addFunds", "af_read")
    /\ LET p == reqs[s].p IN
       IF p.amount < Cent THEN Reply(s, 400)
       ELSE IF p.id \notin DOMAIN giftCards THEN Reply(s, 404)
       ELSE IF NotAuthorized(reqs[s].user, giftCards[p.id].restaurantId) THEN Reply(s, 403)
       ELSE Goto(s, "af_update", <<>>)
    /\ UNCHANGED <<catalog, tables, orderRows, voucherRows, payments, giftRows, clock, nStarted>>

\* prisma.giftCard.update: currentBalance: {increment: amount}, isActive: true
AddFundsUpdate(s) ==
    /\ At(s, "addFunds", "af_update")
    /\ giftCards' = [giftCards EXCEPT ![reqs[s].p.id].currentBalance = @ + reqs[s].p.amount,
                                      ![reqs[s].p.id].isActive = TRUE]
    /\ Goto(s, "af_tx", <<>>)
    /\ UNCHANGED <<catalog, tables, orderRows, voucherRows, payments, giftTx, clock, nStarted>>

\* The LOAD transaction.
AddFundsLedger(s) ==
    /\ At(s, "addFunds", "af_tx")
    /\ LedgerEntry(reqs[s].p.id, reqs[s].p.amount, "LOAD")
    /\ Reply(s, 200)
    /\ UNCHANGED <<catalog, tables, orderRows, voucherRows, payments, giftCards, clock,
                   nStarted>>

--------------------------------------------------------------------------
\* updateGiftCardStatus: PUT /api/gift-cards/:id/status

StartUpdateGiftCardStatus(s, user, id, isActive) ==
    /\ Begin(s, "updateGiftCardStatus", user, [id |-> id, isActive |-> isActive], "gs_read")
    /\ UNCHANGED <<catalog, tables, orderRows, voucherRows, payments, giftRows, clock>>

UpdateGiftCardStatusRead(s) ==
    /\ At(s, "updateGiftCardStatus", "gs_read")
    /\ LET p == reqs[s].p IN
       IF p.id \notin DOMAIN giftCards THEN Reply(s, 404)
       ELSE IF NotAuthorized(reqs[s].user, giftCards[p.id].restaurantId) THEN Reply(s, 403)
       ELSE Goto(s, "gs_update", <<>>)
    /\ UNCHANGED <<catalog, tables, orderRows, voucherRows, payments, giftRows, clock, nStarted>>

\* prisma.giftCard.update({data: {isActive}})
UpdateGiftCardStatusWrite(s) ==
    /\ At(s, "updateGiftCardStatus", "gs_update")
    /\ giftCards' = [giftCards EXCEPT ![reqs[s].p.id].isActive = reqs[s].p.isActive]
    /\ IF reqs[s].p.isActive THEN Reply(s, 200) ELSE Goto(s, "gs_tx", <<>>)
    /\ UNCHANGED <<catalog, tables, orderRows, voucherRows, payments, giftTx, clock, nStarted>>

\* A deactivation is logged as an ISSUE transaction of amount 0.
UpdateGiftCardStatusLedger(s) ==
    /\ At(s, "updateGiftCardStatus", "gs_tx")
    /\ LedgerEntry(reqs[s].p.id, 0, "ISSUE")
    /\ Reply(s, 200)
    /\ UNCHANGED <<catalog, tables, orderRows, voucherRows, payments, giftCards, clock,
                   nStarted>>

--------------------------------------------------------------------------
\* The pricing specification: orders are created and their items and
\* vouchers changed, by up to MaxRequests requests, two at a time.

\* The item lists requests carry: the two-item order of the pricing scenario
\* (10.00 and 5.00, twice each), an item with a modifier, one more item.
TwoItems == <<Item("m1", 2, <<>>), Item("m2", 2, <<>>)>>
WithModifier == <<Item("m1", 1, <<"x1">>)>>
OneMore == <<Item("m2", 1, <<>>)>>

OrderIds == DOMAIN orders
ItemIds == DOMAIN orderItems

\* Fewer than MaxOrders orders exist or are being created.
CanCreate ==
    Len(orders) + Cardinality({t \in Slots : reqs[t].op = "createOrder"}) < MaxOrders

PricingStart(s) ==
    \/ \E c \in {<<"t1", TwoItems>>, <<NoTable, WithModifier>>} :
           /\ CanCreate
           /\ StartCreateOrder(s, Manager, c[1], NoCustomer, c[2])
    \/ \E id \in OrderIds, items \in {WithModifier} :
           StartAddOrderItems(s, Manager, id, items)
    \/ \E id \in OrderIds, i \in ItemIds :
           StartUpdateOrderItem(s, Manager, id, i, <<3>>, <<>>)
    \/ \E id \in OrderIds, i \in ItemIds : StartRemoveOrderItem(s, Manager, id, i)
    \/ \E id \in OrderIds : StartApplyVoucher(s, Manager, "SAVE", id)
    \/ \E id \in OrderIds : StartRemoveVoucher(s, Manager, id)

CreateOrderStep(s) ==
    \/ CreateOrderCheckTable(s)
    \/ CreateOrderOccupyTable(s)
    \/ CreateOrderValidate(s)
    \/ CreateOrderRow(s)
    \/ CreateOrderItem(s)
    \/ CreateOrderItemModifier(s)

AddOrderItemsStep(s) ==
    \/ AddOrderItemsRead(s)
    \/ AddOrderItemsItem(s)
    \/ AddOrderItemsModifier(s)
    \/ AddOrderItemsUpdate(s)

UpdateOrderItemStep(s) ==
    \/ UpdateOrderItemRead(s)
    \/ UpdateOrderItemFind(s)
    \/ UpdateOrderItemWrite(s)
    \/ UpdateOrderItemRecalc(s)
    \/ UpdateOrderItemTotals(s)

RemoveOrderItemStep(s) ==
    \/ RemoveOrderItemRead(s)
    \/ RemoveOrderItemFind(s)
    \/ RemoveOrderItemModifiers(s)
    \/ RemoveOrderItemDelete(s)
    \/ RemoveOrderItemUpdate(s)

ApplyVoucherStep(s) ==
    \/ ApplyVoucherRead(s)
    \/ ApplyVoucherCheck(s)
    \/ ApplyVoucherUpdate(s)
    \/ ApplyVoucherRedeem(s)
    \/ ApplyVoucherCount(s)

RemoveVoucherStep(s) ==
    \/ RemoveVoucherRead(s)
    \/ RemoveVoucherUpdate(s)
    \/ RemoveVoucherDelete(s)
    \/ RemoveVoucherCount(s)

NextPricing ==
    \E s \in Slots :
        \/ PricingStart(s)
        \/ CreateOrderStep(s)
        \/ AddOrderItemsStep(s)
        \/ UpdateOrderItemStep(s)
        \/ RemoveOrderItemStep(s)
        \/ ApplyVoucherStep(s)
        \/ RemoveVoucherStep(s)
        \/ Respond(s)

SpecPricing == Init /\ [][NextPricing]_vars

--------------------------------------------------------------------------
\* The lifecycle specification: orders are created on a table, moved
\* through their statuses by the order, kitchen and payment handlers, and
\* cancelled, by up to MaxRequests requests, two at a time.

\* Item lists createOrder rejects or fails on: an unavailable menu item, and
\* the same modifier twice on one item (the second orderItemModifier row
\* breaks the unique constraint after the order and the item were created).
Unavailable == <<Item("m3", 1, <<>>)>>
TwiceModifier == <<Item("m1", 1, <<"x1", "x1">>)>>

LifecycleStart(s) ==
    \/ \E c \in {<<"t1", NoCustomer, OneMore>>, <<"t1", NoCustomer, Unavailable>>,
                 <<"t1", "c9", OneMore>>, <<NoTable, "c1", TwiceModifier>>} :
           /\ CanCreate
           /\ StartCreateOrder(s, Manager, c[1], c[2], c[3])
    \/ \E id \in OrderIds, status \in {"PENDING", "SERVED", "COMPLETED", "CANCELLED"} :
           StartUpdateOrderStatus(s, Manager, id, status)
    \/ \E id \in OrderIds : StartCancelOrder(s, Manager, id)
    \/ \E id \in OrderIds : \E amount \in {orders[id].total, 500 * Cent} :
           StartCreatePayment(s, Manager, id, amount)
    \/ \E i \in ItemIds, status \in {"READY", "SERVED"} :
           StartUpdateOrderItemStatus(s, Manager, i, status)
    \/ \E id \in OrderIds, status \in {"PREPARING", "READY"} :
           StartUpdateKitchenOrderStatus(s, Manager, id, status)

UpdateOrderStatusStep(s) ==
    \/ UpdateOrderStatusRead(s)
    \/ UpdateOrderStatusCount(s)
    \/ UpdateOrderStatusTable(s)
    \/ UpdateOrderStatusWrite(s)

CancelOrderStep(s) ==
    \/ CancelOrderRead(s)
    \/ CancelOrderWrite(s)
    \/ CancelOrderCount(s)
    \/ CancelOrderTable(s)

CreatePaymentStep(s) ==
    \/ CreatePaymentRead(s)
    \/ CreatePaymentRow(s)
    \/ CreatePaymentComplete(s)
    \/ CreatePaymentCount(s)
    \/ CreatePaymentTable(s)

UpdateOrderItemStatusStep(s) ==
    \/ UpdateOrderItemStatusRead(s)
    \/ UpdateOrderItemStatusWrite(s)
    \/ UpdateOrderItemStatusAll(s)
    \/ UpdateOrderItemStatusOrder(s)

UpdateKitchenOrderStatusStep(s) ==
    \/ UpdateKitchenOrderStatusRead(s)
    \/ UpdateKitchenOrderStatusWrite(s)
    \/ UpdateKitchenOrderStatusItems(s)

NextLifecycle ==
    \E s \in Slots :
        \/ LifecycleStart(s)
        \/ CreateOrderStep(s)
        \/ UpdateOrderStatusStep(s)
        \/ CancelOrderStep(s)
        \/ CreatePaymentStep(s)
        \/ UpdateOrderItemStatusStep(s)
        \/ UpdateKitchenOrderStatusStep(s)
        \/ Respond(s)

SpecLifecycle == Init /\ [][NextLifecycle]_vars

--------------------------------------------------------------------------
\* The gift card specification: a card is issued, redeemed (with or without
\* an order to pay), loaded and switched on and off, by up to MaxRequests
\* requests, two at a time.

CardIds == DOMAIN giftCards

GiftStart(s) ==
    \/ CanCreate /\ StartCreateOrder(s, Manager, NoTable, NoCustomer, OneMore)
    \/ StartCreateGiftCard(s, Manager, 5000 * Cent, "G1", NoCustomer)
    \/ \E amount \in {5000 * Cent, 4500 * Cent, 500 * Cent},
          orderId \in OrderIds \cup {NoOrder} :
           StartRedeemGiftCard(s, Manager, "G1", amount, orderId)
    \/ \E id \in CardIds : StartAddFunds(s, Manager, id, 1000 * Cent)
    \/ \E id \in CardIds, isActive \in BOOLEAN :
           StartUpdateGiftCardStatus(s, Manager, id, isActive)

\* createOrder with an item list that has no modifier.
CreatePlainOrderStep(s) ==
    \/ CreateOrderCheckTable(s)
    \/ CreateOrderValidate(s)
    \/ CreateOrderRow(s)
    \/ CreateOrderItem(s)

CreateGiftCardStep(s) ==
    \/ CreateGiftCardCheck(s)
    \/ CreateGiftCardRow(s)
    \/ CreateGiftCardLedger(s)

RedeemGiftCardStep(s) ==
    \/ RedeemGiftCardRead(s)
    \/ RedeemGiftCardOrder(s)
    \/ RedeemGiftCardPay(s)
    \/ RedeemGiftCardUpdate(s)
    \/ RedeemGiftCardLedger(s)

AddFundsStep(s) ==
    \/ AddFundsRead(s)
    \/ AddFundsUpdate(s)
    \/ AddFundsLedger(s)

UpdateGiftCardStatusStep(s) ==
    \/ UpdateGiftCardStatusRead(s)
    \/ UpdateGiftCardStatusWrite(s)
    \/ UpdateGiftCardStatusLedger(s)

NextGift ==
    \E s \in Slots :
        \/ GiftStart(s)
        \/ CreatePlainOrderStep(s)
        \/ CreateGiftCardStep(s)
        \/ RedeemGiftCardStep(s)
        \/ AddFundsStep(s)
        \/ UpdateGiftCardStatusStep(s)
        \/ Respond(s)

SpecGift == Init /\ [][NextGift]_vars

\* C1: every stored order has total = subtotal + tax + (tip or 0), in every
\* state the pricing requests reach, between their writes as well as after
\* them.
TotalIsSubtotalPlusTaxPlusTip ==
    \A id \in DOMAIN orders :
        orders[id].total = orders[id].subtotal + orders[id].tax + orders[id].tip

\* A request of operation op has answered with code and not yet left.
Answered(op, code) ==
    \E s \in Slots : reqs[s].op = op /\ reqs[s].pc = "respond" /\ reqs[s].code = code

\* applyVoucher has answered 200 on an order that carries tax, with its
\* redemption stored.
VoucherAppliedToTaxedOrder ==
    /\ Answered("applyVoucher", 200)
    /\ \E id \in DOMAIN orders : orders[id].tax > 0 /\ RedemptionsOf(id) # {}

\* The request in slot s is operation op on order id and has answered code.
AnsweredOn(s, op, id, code) ==
    /\ reqs[s].op = op /\ reqs[s].pc = "respond" /\ reqs[s].code = code
    /\ (IF op = "addOrderItems" THEN reqs[s].p.id ELSE reqs[s].p.orderId) = id

\* Two amounts differ by at most 0.01.
WithinOneCent(a, b) == a - b <= Cent /\ b - a <= Cent

\* C4: when two addOrderItems requests on one order interleave (both read
\* the same stored subtotal) and both answer 200, the stored subtotal and
\* total count both additions.
BothAdditionsCounted ==
    \A id \in DOMAIN orders : \A s, t \in Slots :
        ( /\ s # t
          /\ AnsweredOn(s, "addOrderItems", id, 200)
          /\ AnsweredOn(t, "addOrderItems", id, 200)
          /\ reqs[s].o.subtotal = reqs[t].o.subtotal )
        => LET read == reqs[s].o.subtotal
               both == reqs[s].loc.subtotal + reqs[t].loc.subtotal - read
           IN /\ orders[id].subtotal = both
              /\ orders[id].total = both + TaxOn(both, TaxRateOf(orders[id].restaurantId))

\* C5: when removeVoucher has answered 200 after undoing the redemption that
\* an applyVoucher request created, the order's subtotal, tax and total are
\* within 0.01 of what that applyVoucher request read before it applied.
ApplyThenRemoveRestores ==
    \A id \in DOMAIN orders : \A s, t \in Slots :
        ( /\ AnsweredOn(s, "applyVoucher", id, 200)
          /\ AnsweredOn(t, "removeVoucher", id, 200)
          /\ reqs[t].loc.redemptionId = reqs[s].loc.redemptionId )
        => /\ WithinOneCent(orders[id].subtotal, reqs[s].o.subtotal)
           /\ WithinOneCent(orders[id].tax, reqs[s].o.tax)
           /\ WithinOneCent(orders[id].total, reqs[s].o.total)

\* The applyVoucher request in slot s has written its discounted totals to
\* the order, and the order still carries them.
CarriesDiscount(s) ==
    /\ reqs[s].op = "applyVoucher"
    /\ reqs[s].pc \in {"av_redeem", "av_incr", "respond"}
    /\ reqs[s].loc # <<>>
    /\ reqs[s].loc.subtotal # reqs[s].o.subtotal
    /\ orders[reqs[s].p.orderId].subtotal = reqs[s].loc.subtotal

UsesOf(code) == {i \in Live(redemptions) : redemptions[i].code = code}

\* C9: applyVoucher's writes are one unit: no state has an order that carries
\* a request's discounted totals without a redemption, or more redemptions
\* of a voucher than its usageCount.
ApplyVoucherWritesAreAtomic ==
    /\ \A s \in Slots : CarriesDiscount(s) => RedemptionsOf(reqs[s].p.orderId) # {}
    /\ \A code \in DOMAIN vouchers : Cardinality(UsesOf(code)) <= vouchers[code].usageCount

\* C10: an order has at most one VoucherRedemption in every state.
AtMostOneRedemption ==
    \A id \in DOMAIN orders : Cardinality(RedemptionsOf(id)) <= 1

\* The status changes the order state machine allows: one step forward
\* along PENDING, PREPARING, READY, SERVED, COMPLETED, or to CANCELLED from
\* PENDING, PREPARING or READY.
AllowedTransition(old, new) ==
    \/ <<old, new>> \in {<<"PENDING", "PREPARING">>, <<"PREPARING", "READY">>,
                         <<"READY", "SERVED">>, <<"SERVED", "COMPLETED">>}
    \/ new = "CANCELLED" /\ old \in {"PENDING", "PREPARING", "READY"}

\* C2: an order whose status is COMPLETED or CANCELLED keeps that status in
\* every step of the order, kitchen and payment handlers.
TerminalStatusNeverChanges ==
    [][\A id \in DOMAIN orders :
           orders[id].status \in TerminalStatus
           => orders'[id].status = orders[id].status]_vars

\* Slot s takes the step that writes an order's status for updateOrderStatus
\* or cancelOrder.
WritesStatus(s) ==
    /\ reqs[s].op \in {"updateOrderStatus", "cancelOrder"}
    /\ reqs[s].pc \in {"us_update", "cn_update"}
    /\ reqs'[s].pc # reqs[s].pc

\* C3: the status write of updateOrderStatus and of cancelOrder changes the
\* stored status only along an allowed transition (any other request is
\* rejected and changes nothing).
OnlyAllowedTransitions ==
    [][\A s \in Slots :
           WritesStatus(s)
           => LET id == reqs[s].p.id IN
              \/ orders'[id].status = orders[id].status
              \/ AllowedTransition(orders[id].status, orders'[id].status)]_vars

ActiveOrdersOn(tableId) ==
    {i \in DOMAIN orders : orders[i].tableId = tableId /\ orders[i].status \in ActiveStatus}

\* C7: in every state, a table that is AVAILABLE has no active order and a
\* table that is OCCUPIED has at least one (tables start AVAILABLE, and only
\* createOrder makes one OCCUPIED).
TableStatusMatchesOrders ==
    \A t \in DOMAIN tables :
        /\ tables[t].status = "AVAILABLE" => ActiveOrdersOn(t) = {}
        /\ tables[t].status = "OCCUPIED" => ActiveOrdersOn(t) # {}

\* No request is in flight.
Quiet == \A s \in Slots : reqs[s].pc = "idle"

\* With no request in flight, a table is AVAILABLE while a PENDING order
\* sits on it.
AvailableTableWithPendingOrder ==
    /\ Quiet
    /\ \E t \in DOMAIN tables :
           /\ tables[t].status = "AVAILABLE"
           /\ \E i \in ActiveOrdersOn(t) : orders[i].status = "PENDING"

\* The createOrder request in slot s has answered with an error after its
\* table lookup.
CreateOrderFailed(s) ==
    /\ reqs[s].op = "createOrder" /\ reqs[s].pc = "respond"
    /\ reqs[s].code # 201
    /\ reqs[s].loc # <<>>

\* C8: a createOrder request that answered with an error has left no order
\* row and no item row of its own, and the table has the status the request
\* found it with.
CreateOrderAllOrNothing ==
    \A s \in Slots :
        CreateOrderFailed(s)
        => /\ reqs[s].loc.orderId \notin DOMAIN orders
           /\ ItemsOf(reqs[s].loc.orderId) = {}
           /\ reqs[s].p.tableId \in DOMAIN tables
              => tables[reqs[s].p.tableId].status = reqs[s].loc.tableStatus

\* createOrder has answered 400 to the unique-constraint violation of a
\* repeated modifier, and its order row, an item and a modifier of it are
\* stored.
PartialOrderStored ==
    \E s \in Slots :
        /\ CreateOrderFailed(s)
        /\ reqs[s].code = 400
        /\ reqs[s].loc.orderId \in DOMAIN orders
        /\ \E i \in ItemsOf(reqs[s].loc.orderId) : ModsOf(i) # {}

\* A transaction's amount with its sign: ISSUE, LOAD and REFUND add, REDEEM
\* takes away.
Signed(tx) == IF tx.type = "REDEEM" THEN 0 - tx.amount ELSE tx.amount

RECURSIVE SignedSum(_)
SignedSum(txIds) ==
    IF txIds = {} THEN 0
    ELSE LET i == CHOOSE x \in txIds : TRUE IN Signed(giftTx[i]) + SignedSum(txIds \ {i})

TransactionsOf(giftCardId) == {i \in DOMAIN giftTx : giftTx[i].giftCardId = giftCardId}

\* C6: in every state, a gift card's currentBalance is its initialBalance
\* plus the signed sum of its transactions.
BalanceIsInitialPlusLedger ==
    \A id \in DOMAIN giftCards :
        giftCards[id].currentBalance
            = giftCards[id].initialBalance + SignedSum(TransactionsOf(id))

\* A card whose balance was changed by addFunds or redeemGiftCard while the
\* ledger does not hold the matching transaction yet: the balance differs
\* from the signed sum of the transactions alone, the ISSUE row being there.
BalanceAheadOfLedger ==
    \E id \in DOMAIN giftCards :
        /\ \E i \in TransactionsOf(id) :
               giftTx[i].type = "ISSUE" /\ giftTx[i].amount = giftCards[id].initialBalance
        /\ giftCards[id].currentBalance # SignedSum(TransactionsOf(id))

--------------------------------------------------------------------------
\* The voucher-rules specification: one order of 30.00 or of 11.50, and a
\* voucher of one of the three types, with a usage limit or a validity
\* window, applied and removed
\* by up to MaxRequests requests, two at a time.  The wall clock of a
\* behaviour is the instant applyVoucher compares with (1) or a later one (3).

\* A 20% voucher valid from startDate to expiryDate, usable usageLimit times.
Voucher(startDate, expiryDate, usageLimit) ==
    [type |-> "PERCENTAGE", value |-> 20, minPurchase |-> 0, isActive |-> TRUE,
     startDate |-> startDate, expiryDate |-> expiryDate, usageLimit |-> usageLimit,
     usageCount |-> 0, restaurantId |-> "r1"]

\* Usable once; expired before the compared instant; starting after it; and
\* three vouchers without a limit: 15%, 20.00 off, and a free item of 12.00.
RuleVouchers ==
    { Voucher(0, 2, 1), Voucher(-1, 0, NoLimit), Voucher(2, 3, NoLimit),
      [Voucher(0, 2, NoLimit) EXCEPT !.value = 15],
      [Voucher(0, 2, NoLimit) EXCEPT !.type = "FIXED_AMOUNT", !.value = 2000 * Cent],
      [Voucher(0, 2, NoLimit) EXCEPT !.type = "FREE_ITEM", !.value = 1200 * Cent] }

WallClocks == {1, 3}

InitRules ==
    /\ menu = InitMenu
    /\ modifiers = InitModifiers
    /\ tables = [t1 |-> [status |-> "AVAILABLE", restaurantId |-> "r1"]]
    /\ orders = <<>>
    /\ orderItems = <<>>
    /\ itemMods = {}
    /\ \E v \in RuleVouchers : vouchers = [SAVE |-> v]
    /\ redemptions = <<>>
    /\ payments = <<>>
    /\ giftCards = <<>>
    /\ giftTx = <<>>
    /\ clock \in WallClocks
    /\ reqs = [s \in Slots |-> Idle]
    /\ nStarted = 0

RulesStart(s) ==
    \/ \E items \in {TwoItems, WithModifier} :
           CanCreate /\ StartCreateOrder(s, Manager, "t1", NoCustomer, items)
    \/ \E id \in OrderIds : StartApplyVoucher(s, Manager, "SAVE", id)
    \/ \E id \in OrderIds : StartRemoveVoucher(s, Manager, id)

NextRules ==
    \E s \in Slots :
        \/ RulesStart(s)
        \/ CreateOrderStep(s)
        \/ ApplyVoucherStep(s)
        \/ RemoveVoucherStep(s)
        \/ Respond(s)

SpecRules == InitRules /\ [][NextRules]_vars

\* C11: a voucher that has a usageLimit never has a usageCount above it,
\* under any sequence or interleaving of applyVoucher and removeVoucher.
UsageCountWithinLimit ==
    \A code \in DOMAIN vouchers :
        vouchers[code].usageLimit # NoLimit
        => vouchers[code].usageCount <= vouchers[code].usageLimit

\* The wall clock is before the voucher's startDate or after its expiryDate.
OutsideWindow(code) ==
    clock < vouchers[code].startDate \/ clock > vouchers[code].expiryDate

\* The applyVoucher request in slot s has passed its checks.
Accepted(s) ==
    /\ reqs[s].op = "applyVoucher"
    /\ \/ reqs[s].pc \in {"av_update", "av_redeem", "av_incr"}
       \/ reqs[s].pc = "respond" /\ reqs[s].code = 200

\* C12: while the current time is before a voucher's startDate or after its
\* expiryDate, no applyVoucher request for it passes the checks, and the
\* voucher has no redemption and a usageCount of zero.
AppliesOnlyInsideWindow ==
    \A code \in DOMAIN vouchers :
        OutsideWindow(code)
        => /\ \A s \in Slots : Accepted(s) => reqs[s].p.code # code
           /\ UsesOf(code) = {}
           /\ vouchers[code].usageCount = 0

\* C13: an order that has items keeps at least one: no step, of any
\* sequence or interleaving of removeOrderItem requests, deletes the last
\* item of an order.
OrderKeepsAnItem ==
    [][\A id \in DOMAIN orders :
         ItemsOf(id) # {}
         => {i \in Live(orderItems') : orderItems'[i].orderId = id} # {}]_vars
--------------------------------------------------------------------------
\* The item specification: one order on a table, whose items are added,
\* updated and removed while updateOrderStatus moves the order, by up to
\* MaxRequests requests, two at a time.

\* One item with a modifier and one without.
Mixed == <<Item("m1", 1, <<"x1">>), Item("m2", 1, <<>>)>>

ItemsStart(s) ==
    \/ CanCreate /\ StartCreateOrder(s, Manager, "t1", NoCustomer, Mixed)
    \/ \E id \in OrderIds : StartAddOrderItems(s, Manager, id, WithModifier)
    \/ \E id \in OrderIds, i \in ItemIds :
           \E u \in {<<(<<3>>), (<<>>)>>, <<(<<>>), (<<"SERVED">>)>>} :
               StartUpdateOrderItem(s, Manager, id, i, u[1], u[2])
    \/ \E id \in OrderIds, i \in ItemIds : StartRemoveOrderItem(s, Manager, id, i)
    \/ \E id \in OrderIds, status \in {"PREPARING", "COMPLETED"} :
           StartUpdateOrderStatus(s, Manager, id, status)

NextItems ==
    \E s \in Slots :
        \/ ItemsStart(s)
        \/ CreateOrderStep(s)
        \/ AddOrderItemsStep(s)
        \/ UpdateOrderItemStep(s)
        \/ RemoveOrderItemStep(s)
        \/ UpdateOrderStatusStep(s)
        \/ Respond(s)

SpecItems == Init /\ [][NextItems]_vars

\* The order a request of addOrderItems, updateOrderItem or removeOrderItem
\* is about.
TargetOrder(s) ==
    IF reqs[s].op = "addOrderItems" THEN reqs[s].p.id ELSE reqs[s].p.orderId

\* The statuses in which operation op may change an order's items.
MutableStatus(op) ==
    IF op = "removeOrderItem" THEN {"PENDING"} ELSE {"PENDING", "PREPARING", "READY"}

\* C14: a step of addOrderItems, updateOrderItem or removeOrderItem that
\* changes item rows, modifier rows or the order's totals is taken only
\* while the order's stored status is PENDING, PREPARING or READY (PENDING
\* for removeOrderItem).
ItemsChangeOnlyInMutableStatus ==
    [][\A s \in Slots :
         ( /\ reqs[s].op \in {"addOrderItems", "updateOrderItem", "removeOrderItem"}
           /\ reqs'[s] # reqs[s]
           /\ <<orders, orderItems, itemMods>>' # <<orders, orderItems, itemMods>> )
         => orders[TargetOrder(s)].status \in MutableStatus(reqs[s].op)]_vars

\* A request that reads the order in any other status is rejected with 400.
RejectedOutsideMutableStatus ==
    \A s \in Slots :
        ( /\ reqs[s].op \in {"addOrderItems", "updateOrderItem", "removeOrderItem"}
          /\ reqs[s].o # <<>>
          /\ reqs[s].o.status \notin MutableStatus(reqs[s].op) )
        => reqs[s].pc = "respond" /\ reqs[s].code = 400
--------------------------------------------------------------------------
\* The completion specification: one order on a table is served, paid,
\* completed and cancelled by up to MaxRequests requests, two at a time,
\* while time passes: new Date() gives a later value after each Tick.

MaxClock == 3

Tick ==
    /\ clock < MaxClock
    /\ clock' = clock + 1
    /\ UNCHANGED <<catalog, tables, orderRows, voucherRows, payments, giftRows, reqs,
                   nStarted>>

CompletionStart(s) ==
    \/ CanCreate /\ StartCreateOrder(s, Manager, "t1", NoCustomer, OneMore)
    \/ \E id \in OrderIds, status \in {"SERVED", "COMPLETED", "CANCELLED"} :
           StartUpdateOrderStatus(s, Manager, id, status)
    \/ \E id \in OrderIds : StartCancelOrder(s, Manager, id)
    \/ \E id \in OrderIds : StartCreatePayment(s, Manager, id, orders[id].total)

\* createOrder for an order on a table whose items have no modifiers.
CreateTableOrderStep(s) ==
    \/ CreateOrderCheckTable(s)
    \/ CreateOrderOccupyTable(s)
    \/ CreateOrderValidate(s)
    \/ CreateOrderRow(s)
    \/ CreateOrderItem(s)

NextCompletion ==
    \/ Tick
    \/ \E s \in Slots :
        \/ CompletionStart(s)
        \/ CreateTableOrderStep(s)
        \/ UpdateOrderStatusStep(s)
        \/ CancelOrderStep(s)
        \/ CreatePaymentStep(s)
        \/ Respond(s)

SpecCompletion == Init /\ [][NextCompletion]_vars

\* C15: completedAt is stamped when an order enters COMPLETED or CANCELLED,
\* and no step writes another completedAt to an order that is COMPLETED or
\* CANCELLED.
CompletedAtStampedOnce ==
    [][\A id \in DOMAIN orders :
         /\ (orders[id].status \notin TerminalStatus
             /\ orders'[id].status \in TerminalStatus)
            => orders'[id].completedAt # 0
         /\ orders[id].status \in TerminalStatus
            => orders'[id].completedAt = orders[id].completedAt]_vars

\* A request to set a terminal status that reads the order COMPLETED or
\* CANCELLED is rejected with 400.
TerminalAgainRejected ==
    \A s \in Slots :
        ( /\ \/ reqs[s].op = "updateOrderStatus" /\ reqs[s].p.status \in TerminalStatus
             \/ reqs[s].op = "cancelOrder"
          /\ reqs[s].o # <<>>
          /\ reqs[s].o.status \in TerminalStatus )
        => reqs[s].pc = "respond" /\ reqs[s].code = 400

\* updateOrderStatus has answered 200 to a request for a terminal status on
\* an order it read as COMPLETED or CANCELLED, and the order's completedAt is
\* no longer the one it read.
CompletedAtOverwritten ==
    \E s \in Slots :
        /\ reqs[s].op = "updateOrderStatus" /\ reqs[s].pc = "respond" /\ reqs[s].code = 200
        /\ reqs[s].p.status \in TerminalStatus
        /\ reqs[s].o.status \in TerminalStatus
        /\ orders[reqs[s].p.id].completedAt # reqs[s].o.completedAt
--------------------------------------------------------------------------
\* The table specification: up to MaxTableOrders orders on table t1 are
\* created, completed through updateOrderStatus and cancelled, by up to
\* MaxRequests requests, two at a time.

MaxTableOrders == 2

CanCreateOnTable ==
    Len(orders) + Cardinality({t \in Slots : reqs[t].op = "createOrder"}) < MaxTableOrders

TablesStart(s) ==
    \/ CanCreateOnTable /\ StartCreateOrder(s, Manager, "t1", NoCustomer, OneMore)
    \/ \E id \in OrderIds : StartUpdateOrderStatus(s, Manager, id, "COMPLETED")
    \/ \E id \in OrderIds : StartCancelOrder(s, Manager, id)

NextTables ==
    \E s \in Slots :
        \/ TablesStart(s)
        \/ CreateTableOrderStep(s)
        \/ UpdateOrderStatusStep(s)
        \/ CancelOrderStep(s)
        \/ Respond(s)

SpecTables == Init /\ [][NextTables]_vars

\* The request in slot s has read an order that has a table and sets it
\* COMPLETED or CANCELLED through updateOrderStatus or cancelOrder.
TerminatesOnTable(s) ==
    /\ \/ reqs[s].op = "updateOrderStatus" /\ reqs[s].p.status \in TerminalStatus
       \/ reqs[s].op = "cancelOrder"
    /\ reqs[s].o # <<>>
    /\ reqs[s].o.tableId # NoTable

\* C16: a request that takes an order with a table to COMPLETED or CANCELLED
\* changes the table's status only while no other order on the table is
\* active, and when it has answered 200 with no other order active on the
\* table, the table is AVAILABLE.
TableFollowsTermination ==
    [][\A s \in Slots :
         (TerminatesOnTable(s) /\ reqs'[s] # reqs[s])
         => LET t == reqs[s].o.tableId
                id == reqs[s].p.id
            IN /\ tables'[t] # tables[t] => OtherActiveOrders(t, id) = 0
               /\ ( /\ reqs'[s].pc = "respond" /\ reqs'[s].code = 200
                    /\ OtherActiveOrders(t, id)' = 0 )
                  => tables'[t].status = "AVAILABLE"]_vars

\* A request that completed or cancelled an order has answered 200, another
\* order on the table is active, and the table is AVAILABLE.
ReleasedUnderActiveOrder ==
    \E s \in Slots :
        /\ TerminatesOnTable(s)
        /\ reqs[s].pc = "respond" /\ reqs[s].code = 200
        /\ tables[reqs[s].o.tableId].status = "AVAILABLE"
        /\ OtherActiveOrders(reqs[s].o.tableId, reqs[s].p.id) > 0

\* The status immediately before a status the kitchen may set.
PrecedingStatus(status) == IF status = "PREPARING" THEN "PENDING" ELSE "PREPARING"

\* C17: updateKitchenOrderStatus goes on to its writes, and answers 200,
\* only when the order it read is in the status immediately before the
\* requested one: PENDING for PREPARING, PREPARING for READY.
KitchenAdvancesFromPreceding ==
    \A s \in Slots :
        ( /\ reqs[s].op = "updateKitchenOrderStatus"
          /\ \/ reqs[s].pc \in {"ks_update", "ks_items"}
             \/ reqs[s].pc = "respond" /\ reqs[s].code = 200 )
        => reqs[s].o.status = PrecedingStatus(reqs[s].p.status)

\* updateKitchenOrderStatus has answered 200 to a request for READY on an
\* order it read as PENDING, and the order is READY.
KitchenSkippedPreparing ==
    \E s \in Slots :
        /\ reqs[s].op = "updateKitchenOrderStatus"
        /\ reqs[s].pc = "respond" /\ reqs[s].code = 200
        /\ reqs[s].p.status = "READY" /\ reqs[s].o.status = "PENDING"
        /\ orders[reqs[s].p.id].status = "READY"
--------------------------------------------------------------------------
\* The kitchen specification: up to MaxTableOrders orders of two items each
\* are created on table t1; the kitchen advances orders and items, by up to
\* MaxRequests requests, two at a time.

KitchenStart(s) ==
    \/ CanCreateOnTable /\ StartCreateOrder(s, Manager, "t1", NoCustomer, TwoItems)
    \/ \E id \in OrderIds, status \in {"PREPARING", "READY"} :
           StartUpdateKitchenOrderStatus(s, Manager, id, status)
    \/ \E i \in ItemIds, status \in {"READY", "SERVED"} :
           StartUpdateOrderItemStatus(s, Manager, i, status)

NextKitchen ==
    \E s \in Slots :
        \/ KitchenStart(s)
        \/ CreateTableOrderStep(s)
        \/ UpdateKitchenOrderStatusStep(s)
        \/ UpdateOrderItemStatusStep(s)
        \/ Respond(s)

SpecKitchen == Init /\ [][NextKitchen]_vars

\* C18: when updateOrderItemStatus, having written the item and read the
\* order's items, decides to write the order's status, it writes READY only
\* when every item is READY or SERVED, and SERVED only when every item is
\* SERVED.
PromotesOnlyWhenItemsAllow ==
    [][\A s \in Slots :
         ( /\ At(s, "updateOrderItemStatus", "is_all")
           /\ reqs'[s].pc = "is_order" )
         => LET items == ItemsOf(reqs[s].loc.orderId) IN
            /\ reqs'[s].loc.status = "READY"
               => \A i \in items : orderItems[i].status \in {"READY", "SERVED"}
            /\ reqs'[s].loc.status = "SERVED"
               => \A i \in items : orderItems[i].status = "SERVED"]_vars

\* updateOrderItemStatus has answered 200 on an order it read as PREPARING
\* and has written READY to it, while another item of the order is still
\* PREPARING.
ReadyOrderWithUnreadyItem ==
    \E s \in Slots :
        /\ reqs[s].op = "updateOrderItemStatus"
        /\ reqs[s].pc = "respond" /\ reqs[s].code = 200
        /\ reqs[s].o.status = "PREPARING"
        /\ "status" \in DOMAIN reqs[s].loc /\ reqs[s].loc.status = "READY"
        /\ orders[reqs[s].loc.orderId].status = "READY"
        /\ \E i \in ItemsOf(reqs[s].loc.orderId) : orderItems[i].status = "PREPARING"

\* The request in slot s writes an item's status: updateOrderItemStatus, or
\* updateOrderItem with a status field.
WritesItemStatus(s) ==
    \/ reqs[s].op = "updateOrderItemStatus"
    \/ reqs[s].op = "updateOrderItem" /\ reqs[s].p.status # <<>>

\* The order of the item that the request in slot s writes.
OrderOfItemWrite(s) ==
    IF reqs[s].op = "updateOrderItem" THEN reqs[s].p.orderId ELSE reqs[s].loc.orderId

\* C19: when an operation that writes an item's status answers 200, the
\* order has been re-evaluated: a non-terminal order whose items are all
\* SERVED is SERVED, and one whose items are all READY or SERVED is READY
\* (or SERVED).
ItemStatusWriteReevaluatesOrder ==
    [][\A s \in Slots :
         ( /\ WritesItemStatus(s)
           /\ reqs[s].pc # "respond"
           /\ reqs'[s].pc = "respond" /\ reqs'[s].code = 200 )
         => LET id == OrderOfItemWrite(s)
                items == {i \in Live(orderItems') : orderItems'[i].orderId = id}
            IN orders'[id].status \notin TerminalStatus
               => /\ (\A i \in items : orderItems'[i].status = "SERVED")
                     => orders'[id].status = "SERVED"
                  /\ (\A i \in items : orderItems'[i].status \in {"READY", "SERVED"})
                     => orders'[id].status \in {"READY", "SERVED"}]_vars

\* updateOrderItem has answered 200 to a request with status SERVED, both
\* items of the order are SERVED, and the order is still PENDING.
AllServedOrderStillPending ==
    \E s \in Slots :
        /\ reqs[s].op = "updateOrderItem" /\ reqs[s].p.status = <<"SERVED">>
        /\ reqs[s].pc = "respond" /\ reqs[s].code = 200
        /\ Cardinality(ItemsOf(reqs[s].p.orderId)) = 2
        /\ \A i \in ItemsOf(reqs[s].p.orderId) : orderItems[i].status = "SERVED"
        /\ orders[reqs[s].p.orderId].status = "PENDING"

\* The step by which updateKitchenOrderStatus answers 200 sets every
\* item of the order that was in the status before the requested one
\* (PENDING for PREPARING, PREPARING for READY) to the requested status, and
\* leaves the order's other items and the items of other orders unchanged.
KitchenCascadesToItems ==
    [][\A s \in Slots :
         ( /\ reqs[s].op = "updateKitchenOrderStatus"
           /\ reqs[s].pc # "respond"
           /\ reqs'[s].pc = "respond" /\ reqs'[s].code = 200 )
         => /\ DOMAIN orderItems' = DOMAIN orderItems
            /\ \A i \in DOMAIN orderItems :
                 IF /\ orderItems[i] # NoRow
                    /\ orderItems[i].orderId = reqs[s].p.id
                    /\ orderItems[i].status = PrecedingStatus(reqs[s].p.status)
                 THEN /\ orderItems'[i].status = reqs[s].p.status
                      /\ [orderItems'[i] EXCEPT !.status = orderItems[i].status] = orderItems[i]
                 ELSE orderItems'[i] = orderItems[i]]_vars

\* C20: the kitchen's requests cascade to the items, so that when an order
\* that the kitchen took from PENDING to PREPARING is taken on to READY (the
\* request for READY read it as PREPARING and has answered 200), every item
\* of the order is READY (or already SERVED).
KitchenReadyItemsReady ==
    \A s \in Slots :
        ( /\ reqs[s].op = "updateKitchenOrderStatus"
          /\ reqs[s].pc = "respond" /\ reqs[s].code = 200
          /\ reqs[s].p.status = "READY" /\ reqs[s].o.status = "PREPARING" )
        => \A i \in ItemsOf(reqs[s].p.id) : orderItems[i].status \in {"READY", "SERVED"}

\* The kitchen has taken an order from PENDING to PREPARING to READY, no
\* other request is in flight, and every item of the order is PREPARING.
ReadyOrderItemsPreparing ==
    \E s \in Slots :
        /\ reqs[s].op = "updateKitchenOrderStatus"
        /\ reqs[s].pc = "respond" /\ reqs[s].code = 200
        /\ reqs[s].p.status = "READY" /\ reqs[s].o.status = "PREPARING"
        /\ \A t \in Slots \ {s} : reqs[t] = Idle
        /\ orders[reqs[s].p.id].status = "READY"
        /\ Cardinality(ItemsOf(reqs[s].p.id)) = 2
        /\ \A i \in ItemsOf(reqs[s].p.id) : orderItems[i].status = "PREPARING"

--------------------------------------------------------------------------
\* The sum of the catalog prices of the modifiers a request names.
RECURSIVE RequestedModifiers(_)
RequestedModifiers(modifierIds) ==
    IF modifierIds = <<>> THEN 0
    ELSE modifiers[Head(modifierIds)].price + RequestedModifiers(Tail(modifierIds))

\* The sum over the requested items of (menu item price + the selected
\* modifiers' prices) times quantity, at the catalog's prices.
RECURSIVE RequestedSubtotal(_)
RequestedSubtotal(items) ==
    IF items = <<>> THEN 0
    ELSE (menu[Head(items).menuItemId].price + RequestedModifiers(Head(items).modifierIds))
             * Head(items).quantity
         + RequestedSubtotal(Tail(items))


\* C21: the order row that createOrder stores has subtotal equal to the sum
\* over the requested items of (price + modifier prices) * quantity, tax equal
\* to subtotal * taxRate / 100 and total = subtotal + tax; for two items of
\* 10.00 and 5.00, quantity 2 each, at 8% it has 30.00, 2.40 and 32.40.
CreateOrderStoresPricedTotals ==
    [][\A s \in Slots :
         (At(s, "createOrder", "co_create") /\ reqs'[s].pc = "co_items")
         => LET order == orders'[Len(orders')]
                items == reqs[s].p.orderItems
            IN /\ order.subtotal = RequestedSubtotal(items)
               /\ 100 * order.tax = order.subtotal * TaxRateOf(order.restaurantId)
               /\ order.total = order.subtotal + order.tax
               /\ items = TwoItems
                  => /\ order.subtotal = 3000 * Cent
                     /\ order.tax = 240 * Cent
                     /\ order.total = 3240 * Cent]_vars

\* createOrder has answered 201 for the two items of 10.00 and 5.00, quantity
\* 2 each, and its order is stored with 30.00, 2.40 and 32.40.
TwoItemsOrderStored ==
    \E s \in Slots :
        /\ reqs[s].op = "createOrder" /\ reqs[s].pc = "respond" /\ reqs[s].code = 201
        /\ reqs[s].p.orderItems = TwoItems
        /\ orders[reqs[s].loc.orderId].subtotal = 3000 * Cent
        /\ orders[reqs[s].loc.orderId].tax = 240 * Cent
        /\ orders[reqs[s].loc.orderId].total = 3240 * Cent

--------------------------------------------------------------------------
\* The voucher of the applyVoucher request in slot s.
AppliedVoucher(s) == vouchers[reqs[s].p.code]

\* applyVoucher in slot s writes the discounted totals of its order.
WritesDiscount(s) ==
    At(s, "applyVoucher", "av_update") /\ reqs'[s].pc = "av_redeem"

NearestCent(d, subtotal, value) ==
    /\ d % Cent = 0
    /\ 2 * (100 * d - subtotal * value) <= 100 * Cent
    /\ 2 * (subtotal * value - 100 * d) <= 100 * Cent

--------------------------------------------------------------------------
\* redeemGiftCard in slot s writes the card's balance and isActive.
WritesRedeemedBalance(s) ==
    At(s, "redeemGiftCard", "rg_update") /\ reqs'[s].pc = "rg_tx"

\* C23: a redeemGiftCard that leaves the card's currentBalance at exactly
\* zero leaves the card inactive, also when two redeems interleave, and a
\* redeem that leaves a positive balance leaves the card active.
RedeemDeactivatesAtZero ==
    [][\A s \in Slots :
         WritesRedeemedBalance(s)
         => LET card == giftCards'[reqs[s].loc.id]
            IN /\ card.currentBalance = 0 => ~card.isActive
               /\ card.currentBalance > 0 => card.isActive]_vars

\* The REDEEM transactions recorded for card id.
RedeemsOf(id) ==
    {i \in DOMAIN giftTx : giftTx[i].giftCardId = id /\ giftTx[i].type = "REDEEM"}

\* Two redeems were answered 200 and nothing else touched the card: the
\* balance is zero and the card is still active.
EmptyCardStillActive ==
    /\ Quiet
    /\ \E id \in DOMAIN giftCards :
          /\ giftCards[id].currentBalance = 0
          /\ giftCards[id].isActive
          /\ Cardinality(RedeemsOf(id)) = 2
          /\ Cardinality({i \in DOMAIN giftTx : giftTx[i].giftCardId = id}) = 3

\* C29: a gift card's currentBalance is never negative, under any sequence
\* or interleaving of redeemGiftCard and addFunds.
BalanceNeverNegative ==
    \A id \in DOMAIN giftCards : giftCards[id].currentBalance >= 0

\* Two redeems that each passed the balance check were answered 200 and
\* took more than the card held.
TwoRedeemsOverdraw ==
    /\ Quiet
    /\ \E id \in DOMAIN giftCards :
          /\ giftCards[id].currentBalance < 0
          /\ Cardinality(RedeemsOf(id)) = 2

--------------------------------------------------------------------------
\* No two orders of one restaurant carry the same order number.
UniqueOrderNumbers ==
    \A i, j \in DOMAIN orders :
        (i # j /\ orders[i].restaurantId = orders[j].restaurantId)
        => orders[i].orderNumber # orders[j].orderNumber

\* createOrder in slot s runs order.create with a number that is stored.
CreatesWithStoredNumber(s) ==
    /\ At(s, "createOrder", "co_create")
    /\ reqs'[s].pc # "co_create"
    /\ \E i \in DOMAIN orders : orders[i].orderNumber = reqs[s].loc.orderNumber

\* C24: no two orders of the same restaurant carry the same order number,
\* under any sequence or interleaving of createOrder requests, and a
\* createOrder whose number is taken answers with an error and stores no order.
OrderNumbersStayUnique ==
    [][/\ UniqueOrderNumbers'
       /\ \A s \in Slots :
             CreatesWithStoredNumber(s)
             => /\ orders' = orders
                /\ reqs'[s].pc = "respond"
                /\ reqs'[s].code >= 400]_vars

\* Two createOrder requests counted the same orders: one stored its order,
\* the other was answered with an error for the number it had made.
SecondCreateRejected ==
    \E s \in Slots :
        /\ reqs[s].op = "createOrder" /\ reqs[s].pc = "respond"
        /\ reqs[s].code = 400
        /\ reqs[s].loc # <<>>
        /\ reqs[s].loc.orderId = 0
        /\ Cardinality({i \in DOMAIN orders :
                           orders[i].orderNumber = reqs[s].loc.orderNumber}) = 1

--------------------------------------------------------------------------
\* getOrders: GET /api/orders, and getOrder: GET /api/orders/:id

\* A manager of another restaurant, which has no orders.
Outsider == [id |-> "u2", role |-> "MANAGER", restaurantId |-> "r2"]

\* No restaurantId in the query string.
NoQuery == "none"

\* res.status(code).json({data}): the response carries the orders in loc.data.
ReplyWith(s, code, loc) ==
    reqs' = [reqs EXCEPT ![s].pc = "respond", ![s].code = code, ![s].loc = loc]

StartGetOrders(s, user, restaurantId) ==
    /\ Begin(s, "getOrders", user, [restaurantId |-> restaurantId], "go_count")
    /\ UNCHANGED <<catalog, tables, orderRows, voucherRows, payments, giftRows, clock>>

\* The filter: the query's restaurantId when there is one, and the caller's
\* restaurant otherwise.
OrdersWhere(s) ==
    LET restaurantId == IF reqs[s].p.restaurantId # NoQuery
                        THEN reqs[s].p.restaurantId
                        ELSE reqs[s].user.restaurantId
    IN {i \in DOMAIN orders : orders[i].restaurantId = restaurantId}

\* prisma.order.count({where})
GetOrdersCount(s) ==
    /\ At(s, "getOrders", "go_count")
    /\ Goto(s, "go_find", [total |-> Cardinality(OrdersWhere(s)), data |-> {}])
    /\ UNCHANGED <<catalog, tables, orderRows, voucherRows, payments, giftRows, clock, nStarted>>

\* prisma.order.findMany({where}); the first page holds every order here.
GetOrdersFind(s) ==
    /\ At(s, "getOrders", "go_find")
    /\ ReplyWith(s, 200, [reqs[s].loc EXCEPT !.data = OrdersWhere(s)])
    /\ UNCHANGED <<catalog, tables, orderRows, voucherRows, payments, giftRows, clock, nStarted>>

StartGetOrder(s, user, id) ==
    /\ Begin(s, "getOrder", user, [id |-> id], "gt_read")
    /\ UNCHANGED <<catalog, tables, orderRows, voucherRows, payments, giftRows, clock>>

\* prisma.order.findUnique, then the tenant check on the order that was found.
GetOrderRead(s) ==
    /\ At(s, "getOrder", "gt_read")
    /\ LET p == reqs[s].p IN
       IF p.id \notin DOMAIN orders THEN Reply(s, 404)
       ELSE IF NotAuthorized(reqs[s].user, orders[p.id].restaurantId) THEN Reply(s, 403)
       ELSE ReplyWith(s, 200, [data |-> {p.id}])
    /\ UNCHANGED <<catalog, tables, orderRows, voucherRows, payments, giftRows, clock, nStarted>>

\* The access specification: the manager of r1 creates an order on a table,
\* completes or cancels it; the manager and an outsider of r2 read orders
\* and the outsider tries every operation that changes an order.
AccessStart(s) ==
    \/ CanCreate /\ StartCreateOrder(s, Manager, "t1", NoCustomer, TwoItems)
    \/ \E user \in {Manager, Outsider}, restaurantId \in {NoQuery, "r1"} :
           StartGetOrders(s, user, restaurantId)
    \/ \E user \in {Manager, Outsider} : StartGetOrder(s, user, 1)
    \/ \E user \in {Manager, Outsider}, id \in OrderIds :
           StartUpdateOrderStatus(s, user, id, "COMPLETED")
    \/ \E user \in {Manager, Outsider}, id \in OrderIds : StartCancelOrder(s, user, id)
    \/ \E id \in OrderIds : StartAddOrderItems(s, Outsider, id, OneMore)
    \/ \E id \in OrderIds, itemId \in ItemIds :
           StartUpdateOrderItem(s, Outsider, id, itemId, <<3>>, <<>>)
    \/ \E id \in OrderIds, itemId \in ItemIds :
           StartRemoveOrderItem(s, Outsider, id, itemId)

NextAccess ==
    \E s \in Slots :
        \/ AccessStart(s)
        \/ CreateTableOrderStep(s)
        \/ GetOrdersCount(s)
        \/ GetOrdersFind(s)
        \/ GetOrderRead(s)
        \/ UpdateOrderStatusStep(s)
        \/ CancelOrderStep(s)
        \/ AddOrderItemsRead(s)
        \/ UpdateOrderItemRead(s)
        \/ RemoveOrderItemRead(s)
        \/ Respond(s)

SpecAccess == Init /\ [][NextAccess]_vars

\* The orders of restaurants other than the one of user.
ForeignOrders(user) ==
    {i \in DOMAIN orders : orders[i].restaurantId # user.restaurantId}

\* The request in slot s, of a caller who is not an ADMIN, takes a step.
NonAdminSteps(s) ==
    /\ reqs[s].pc # "idle"
    /\ reqs[s].user.role # "ADMIN"
    /\ reqs'[s] # reqs[s]

\* C25: a step of a non-ADMIN caller's request changes no order of another
\* restaurant and none of its items, and what getOrders or getOrder answers
\* to such a caller holds no order of another restaurant.
NonAdminConfinedToOwnRestaurant ==
    [][\A s \in Slots :
         NonAdminSteps(s)
         => LET user == reqs[s].user IN
            /\ \A id \in ForeignOrders(user) :
                  /\ orders'[id] = orders[id]
                  /\ ItemsOf(id)' = ItemsOf(id)
                  /\ \A i \in ItemsOf(id) : orderItems'[i] = orderItems[i]
            /\ (reqs'[s].pc = "respond" /\ reqs'[s].code = 200
                /\ reqs[s].op \in {"getOrders", "getOrder"})
               => reqs'[s].loc.data \cap ForeignOrders(user) = {}]_vars

\* getOrders has answered the outsider with an order of restaurant r1.
OutsiderHoldsForeignOrders ==
    \E s \in Slots :
        /\ reqs[s].op = "getOrders" /\ reqs[s].pc = "respond" /\ reqs[s].code = 200
        /\ reqs[s].user = Outsider
        /\ \E id \in reqs[s].loc.data : orders[id].restaurantId = "r1"

--------------------------------------------------------------------------
\* updateMenuItem: PUT /api/menu/items/:id, and updateModifier:
\* PUT /api/menu/modifiers/:id, with a new price in the body.

StartUpdateMenuItem(s, user, id, price) ==
    /\ Begin(s, "updateMenuItem", user, [id |-> id, price |-> price], "mi_read")
    /\ UNCHANGED <<catalog, tables, orderRows, voucherRows, payments, giftRows, clock>>

\* prisma.menuItem.findUnique and the tenant check.
UpdateMenuItemRead(s) ==
    /\ At(s, "updateMenuItem", "mi_read")
    /\ LET p == reqs[s].p IN
       IF p.id \notin DOMAIN menu THEN Reply(s, 404)
       ELSE IF NotAuthorized(reqs[s].user, menu[p.id].restaurantId) THEN Reply(s, 403)
       ELSE Goto(s, "mi_update", <<>>)
    /\ UNCHANGED <<catalog, tables, orderRows, voucherRows, payments, giftRows, clock, nStarted>>

\* prisma.menuItem.update({data: {price}})
UpdateMenuItemWrite(s) ==
    /\ At(s, "updateMenuItem", "mi_update")
    /\ menu' = [menu EXCEPT ![reqs[s].p.id].price = reqs[s].p.price]
    /\ Reply(s, 200)
    /\ UNCHANGED <<modifiers, tables, orderRows, voucherRows, payments, giftRows, clock,
                   nStarted>>

StartUpdateModifier(s, user, id, price) ==
    /\ Begin(s, "updateModifier", user, [id |-> id, price |-> price], "mo_read")
    /\ UNCHANGED <<catalog, tables, orderRows, voucherRows, payments, giftRows, clock>>

\* prisma.modifier.findUnique with the menu items of its group; a caller who
\* is not an ADMIN needs one of them in their restaurant.
UpdateModifierRead(s) ==
    /\ At(s, "updateModifier", "mo_read")
    /\ LET p == reqs[s].p
           user == reqs[s].user
           hasAccess == \E m \in DOMAIN menu :
                           /\ p.id \in menu[m].modifierIds
                           /\ menu[m].restaurantId = user.restaurantId
       IN IF p.id \notin DOMAIN modifiers THEN Reply(s, 404)
          ELSE IF user.role # "ADMIN" /\ ~hasAccess THEN Reply(s, 403)
          ELSE Goto(s, "mo_update", <<>>)
    /\ UNCHANGED <<catalog, tables, orderRows, voucherRows, payments, giftRows, clock, nStarted>>

\* prisma.modifier.update({data: {price}})
UpdateModifierWrite(s) ==
    /\ At(s, "updateModifier", "mo_update")
    /\ modifiers' = [modifiers EXCEPT ![reqs[s].p.id].price = reqs[s].p.price]
    /\ Reply(s, 200)
    /\ UNCHANGED <<menu, tables, orderRows, voucherRows, payments, giftRows, clock,
                   nStarted>>

\* The catalog specification: an order of an item with a modifier and a
\* second item; the item's price goes from 10.00 to 12.00 and the
\* modifier's from 1.50 to 2.00, and an item's quantity is changed or an item
\* is removed, by up to MaxRequests requests, two at a time.
CatalogStart(s) ==
    \/ CanCreate /\ StartCreateOrder(s, Manager, "t1", NoCustomer, Mixed)
    \/ StartUpdateMenuItem(s, Manager, "m1", 1200 * Cent)
    \/ StartUpdateModifier(s, Manager, "x1", 200 * Cent)
    \/ \E id \in OrderIds, itemId \in ItemIds :
           StartUpdateOrderItem(s, Manager, id, itemId, <<3>>, <<>>)
    \/ \E id \in OrderIds, itemId \in ItemIds : StartRemoveOrderItem(s, Manager, id, itemId)

NextCatalog ==
    \E s \in Slots :
        \/ CatalogStart(s)
        \/ CreateOrderStep(s)
        \/ UpdateMenuItemRead(s)
        \/ UpdateMenuItemWrite(s)
        \/ UpdateModifierRead(s)
        \/ UpdateModifierWrite(s)
        \/ UpdateOrderItemStep(s)
        \/ RemoveOrderItemStep(s)
        \/ Respond(s)

SpecCatalog == Init /\ [][NextCatalog]_vars

\* The amount of stored item rows: each row's stored price plus the stored
\* prices of its modifier rows, times its quantity.
RECURSIVE StoredAmount(_)
StoredAmount(itemIds) ==
    IF itemIds = {} THEN 0
    ELSE LET i == CHOOSE x \in itemIds : TRUE
             mods == {m \in itemMods : m.orderItemId = i}
         IN (orderItems[i].price + ModsPrice(mods)) * orderItems[i].quantity
            + StoredAmount(itemIds \ {i})

\* C26: a change of a menu item's or a modifier's catalog price changes no
\* order, no order item and no order item modifier; a stored item or
\* modifier row keeps its price for as long as it exists; and the totals
\* that updateOrderItem recomputes and the item total that removeOrderItem
\* subtracts are made of the stored prices.
StoredPricesSurviveCatalogChange ==
    [][/\ (menu' # menu \/ modifiers' # modifiers) => orderRows' = orderRows
       /\ \A i \in Live(orderItems) :
             orderItems'[i] # NoRow => orderItems'[i].price = orderItems[i].price
       /\ \A m \in itemMods :
             \A n \in itemMods' :
                (n.orderItemId = m.orderItemId /\ n.modifierId = m.modifierId)
                => n.price = m.price
       /\ \A s \in Slots :
             /\ (At(s, "updateOrderItem", "ui_recalc") /\ reqs'[s].pc = "ui_total")
                => LET loc == reqs'[s].loc
                   IN /\ loc.subtotal = StoredAmount(ItemsOf(reqs[s].p.orderId))
                      /\ 100 * loc.tax = loc.subtotal * TaxRateOf(reqs[s].o.restaurantId)
                      /\ loc.total = loc.subtotal + loc.tax
             /\ (At(s, "updateOrderItem", "ui_total") /\ reqs'[s].pc = "respond")
                => LET order == orders'[reqs[s].p.orderId]
                   IN /\ order.subtotal = reqs[s].loc.subtotal
                      /\ order.tax = reqs[s].loc.tax
                      /\ order.total = reqs[s].loc.total
             /\ (At(s, "removeOrderItem", "ri_item") /\ reqs'[s].pc = "ri_delMods")
                => reqs'[s].loc.itemTotal = StoredAmount({reqs[s].p.itemId})
             /\ (At(s, "removeOrderItem", "ri_update") /\ reqs'[s].pc = "respond")
                => orders'[reqs[s].p.orderId].subtotal
                      = reqs[s].o.subtotal - reqs[s].loc.itemTotal]_vars

\* The item's catalog price was changed after the order was stored, and
\* updateOrderItem has then recomputed the order's totals: the item and its
\* modifier keep 10.00 and 1.50, and the subtotal is 3 * 11.50 + 5.00.
RecalculatedAtStoredPrices ==
    \E s \in Slots :
        /\ reqs[s].op = "updateOrderItem" /\ reqs[s].pc = "respond" /\ reqs[s].code = 200
        /\ menu["m1"].price = 1200 * Cent
        /\ LET id == reqs[s].p.orderId
               i == reqs[s].p.itemId
           IN /\ orderItems[i].menuItemId = "m1"
              /\ orderItems[i].price = 1000 * Cent
              /\ orderItems[i].quantity = 3
              /\ \E m \in itemMods : m.orderItemId = i /\ m.price = 150 * Cent
              /\ orders[id].subtotal = 3950 * Cent

--------------------------------------------------------------------------
\* C27: when no request is under way, every order without a voucher
\* redemption has a stored subtotal equal to the sum over its current items
\* of (stored price + stored modifier prices) * quantity.
SubtotalMatchesItemsWithoutVoucher ==
    Quiet
    => \A id \in DOMAIN orders :
          RedemptionsOf(id) = {} => orders[id].subtotal = StoredAmount(ItemsOf(id))

\* A voucher was applied to an order and removed again; no request is under
\* way, the order has no redemption, and its subtotal is not the sum of its
\* items.
SubtotalOffAfterVoucherRemoved ==
    /\ Quiet
    /\ \E id \in DOMAIN orders :
          /\ RedemptionsOf(id) = {}
          /\ \E i \in DOMAIN redemptions :
                redemptions[i] = NoRow
          /\ orders[id].subtotal # StoredAmount(ItemsOf(id))

--------------------------------------------------------------------------
\* C28: for every order, the sum of its COMPLETED payments never exceeds the
\* order's total.
PaidWithinTotal ==
    \A id \in DOMAIN orders : TotalPaid(id) <= orders[id].total

\* redeemGiftCard was answered 200 for an amount above the total of the
\* order it paid: the order's COMPLETED payments exceed its total.
GiftCardOverpaysOrder ==
    \E s \in Slots :
        /\ reqs[s].op = "redeemGiftCard" /\ reqs[s].pc = "respond" /\ reqs[s].code = 200
        /\ reqs[s].p.orderId \in DOMAIN orders
        /\ reqs[s].p.amount > orders[reqs[s].p.orderId].total
        /\ TotalPaid(reqs[s].p.orderId) > orders[reqs[s].p.orderId].total

--------------------------------------------------------------------------
\* C30: no order's subtotal, tax or total is ever negative.
TotalsNeverNegative ==
    \A id \in DOMAIN orders :
        /\ orders[id].subtotal >= 0
        /\ orders[id].tax >= 0
        /\ orders[id].total >= 0

\* removeOrderItem was answered 200 on an order that carries a voucher, and
\* the order's subtotal is below zero.
NegativeSubtotalAfterRemoval ==
    \E s \in Slots :
        /\ reqs[s].op = "removeOrderItem" /\ reqs[s].pc = "respond" /\ reqs[s].code = 200
        /\ RedemptionsOf(reqs[s].p.orderId) # {}
        /\ orders[reqs[s].p.orderId].subtotal < 0
====
